---- MODULE Spec2Model ----
(***************************************************************************)
(* harv: the command layer (src/main.rs) over the Harvest client            *)
(* (src/harvest.rs), the prompts (src/prompt.rs) and the usage cache        *)
(* (src/usage.rs).                                                          *)
(*                                                                          *)
(* One invocation of the tool runs one command.  A command is a linear      *)
(* sequence of blocking calls; every call that talks to the outside (an     *)
(* HTTP request, a prompt, the cache file) is one step of the model, and    *)
(* pc is the position of the running command.  The Harvest account is a     *)
(* plain store: it does what the requests it receives say.                  *)
(*                                                                          *)
(* Text is a tuple of characters.  An Option<T> is a tuple of length 0      *)
(* (None) or 1 (Some).  Dates are days before today (0 = today).            *)
(* Hours are thousandths of an hour.                                        *)
(*                                                                          *)
(* Spec runs the commands; SpecGen runs generate once over more replies.    *)
(* SpecCache runs the usage cache's load, record and save on their own,     *)
(* save step by step.  SpecSort, SpecExtract, SpecHours, SpecResponse,      *)
(* SpecCommits, SpecList, SpecRepos and SpecRange each apply one library    *)
(* function to every argument of a bounded set: call_args holds the         *)
(* arguments, call_result the result.  SpecStatus runs status read by read  *)
(* next to another client of the account.  SpecSavers runs the save of two  *)
(* invocations side by side.                                                *)
(***************************************************************************)
EXTENDS Integers, Sequences, FiniteSets, TLC

\* ------------------------------------------------------------------------
\* Bounds of the model
\* ------------------------------------------------------------------------
MaxCmds == 2

\* the most entries one LLM reply carries
MaxProposed == 2

\* ------------------------------------------------------------------------
\* Option and text helpers
\* ------------------------------------------------------------------------
None == <<>>

Some(x) == <<x>>

is_some(o) == Len(o) = 1

unwrap(o) == o[1]

\* str::contains: needle occurs in hay as a contiguous substring
contains(hay, needle) ==
    \E i \in 0..(Len(hay) - Len(needle)) :
        SubSeq(hay, i + 1, i + Len(needle)) = needle

\* Iterator::next: the first element of s, if any
first_of(s) == IF s = <<>> THEN None ELSE Some(Head(s))

\* ------------------------------------------------------------------------
\* Sample data
\* ------------------------------------------------------------------------
\* two ticket keys, one a proper prefix of the other
KeyA1 == <<"A", "-", "1">>

KeyA12 == <<"A", "-", "1", "2">>

TicketKeys == {KeyA1, KeyA12}

Summary == <<"s">>

\* the ticket lists extract_tickets + get_issues can deliver: sorted, unique,
\* non-empty (run_sync returns before this point on an empty key list)
TicketLists ==
    { <<[key |-> KeyA1, summary |-> Summary]>>,
      <<[key |-> KeyA12, summary |-> Summary]>>,
      <<[key |-> KeyA1, summary |-> Summary], [key |-> KeyA12, summary |-> Summary]>> }

\* notes written by create_time_entry: format!("{} - {}", jira_ticket, description)
ticket_notes(key, summary) == key \o <<" ", "-", " ">> \o summary

NoDescription == <<"(no description)">>

FreeNotes == <<"w", "o", "r", "k">>

\* the (project, task) assignments of the account
ProjectIds == {1, 2}

TaskIdsOf(p) == {p * 10}

\* dates an entry of the account can carry: today and yesterday
Dates == {0, 1}

\* ------------------------------------------------------------------------
\* The Harvest account (the Time service)
\* ------------------------------------------------------------------------
\* models::TimeEntry
TimeEntry(id, date, hours, notes, running, project, task) ==
    [id |-> id, spent_date |-> date, hours |-> hours, notes |-> notes,
     is_running |-> running, project |-> project, task |-> task]

\* PATCH /v2/time_entries/{id}/stop
ServiceStop(acct, id) ==
    [i \in 1..Len(acct) |->
        IF acct[i].id = id THEN [acct[i] EXCEPT !.is_running = FALSE] ELSE acct[i]]

\* POST /v2/time_entries: the new entry is the most recent one
ServiceCreate(acct, e) == <<e>> \o acct

\* GET /v2/time_entries?from=X&to=Y, dates as days before today
ServiceList(acct, from, to) ==
    LET in_range(e) == e.spent_date <= from /\ e.spent_date >= to
    IN  SelectSeq(acct, in_range)

RunningCount(acct) == Cardinality({i \in 1..Len(acct) : acct[i].is_running})


\* ------------------------------------------------------------------------
\* State
\* ------------------------------------------------------------------------
VARIABLES
    account,          \* the account's time entries, most recent first
    next_id,          \* the id the service gives the next entry it creates
    cmds,             \* commands started in this session
    cmd,              \* the running (or last finished) command
    pc,               \* its position; "idle" before the first, "done" after the last step
    result,           \* "none" while it runs, then "ok", "err" or "cancelled"
    account0,         \* the account when the command started
    ctx,              \* models::Context
    settings,         \* the configuration values the commands read
    reqs,             \* mutating requests this command sent, in order
    calls,            \* mutating client operations this command called, in order
    prompts,          \* prompts this command showed, in order
    tickets,          \* run_sync: tickets
    selected_ticket,  \* run_sync: selected_ticket (Option)
    timer,            \* run_sync / run_add / run_continue: the running timer found (Option)
    form,             \* run_add: the answers collected so far
    usage_cache,      \* run_add: the in-memory UsageCache (Option: None before load)
    cache_file,       \* the document at <config-dir>/harv/usage.json (Option)
    cache_file0,      \* that document when the command started
    saves,            \* calls of UsageCache::save by this command
    file_writes,      \* replacements of the cache file by this command
    lookback_days,    \* run_continue: lookback_days
    valid_entries,    \* run_continue: valid_entries
    selected_entry,   \* run_continue: selected_entry (Option)
    auto_approve,     \* run_generate: --auto-approve
    llm_reply,        \* run_generate: the entries generate_time_entries returned
    proposed_entries, \* run_generate: proposed_entries after the retain
    approved_entries, \* run_generate: approved_entries
    fallback,         \* run_generate: fallback (Option of <<project_id, task_id>>)
    idx,              \* run_generate: position of the for loop in approved_entries
    created_count,    \* run_generate: created_count
    failed_count,     \* run_generate: failed_count
    attempts,         \* run_generate: create operations called for each approved entry
    config_dir,       \* whether dirs::config_dir() gives a directory
    temp_file,        \* the document at <config-dir>/harv/usage.tmp (Option)
    io_pc,            \* UsageCache::load / save: the position of the running call
    io_result,        \* what the last load / save returned to its caller
    utc_now,          \* what Utc::now() reads
    prev_cache,       \* the UsageCache before the last record_*_usage call
    last_call,        \* that call: [map, id] (Option)
    call_args,        \* a library function called on its own: its arguments
    call_result,      \* ... and what it returned (Option)
    fetches,          \* status: the fetches of today's entries it has made
    observed,         \* status: the timer, the entries and the total it read
    savers,           \* two invocations saving the usage cache: where each is
    reader_loaded     \* what a reader last read from the real path (Option)

vars == <<account, next_id, cmds, cmd, pc, result, account0, ctx, settings,
          reqs, calls, prompts, tickets, selected_ticket, timer, form,
          usage_cache, cache_file, cache_file0, saves, file_writes, lookback_days,
          valid_entries, selected_entry, auto_approve, llm_reply, proposed_entries,
          approved_entries, fallback, idx, created_count, failed_count, attempts,
          config_dir, temp_file, io_pc, io_result, utc_now, prev_cache, last_call,
          call_args, call_result, fetches, observed, savers, reader_loaded>>

\* the variables of the commands' local state, by command
sync_vars == <<tickets, selected_ticket>>

add_vars == <<form, usage_cache, cache_file, saves, file_writes>>

continue_vars == <<lookback_days, valid_entries, selected_entry>>

generate_vars == <<auto_approve, llm_reply, proposed_entries, approved_entries,
                   fallback, idx, created_count, failed_count, attempts>>

\* the state of the usage cache's file operations and of the library calls
\* looked at on their own: no step of a command touches it
lib_vars == <<config_dir, temp_file, io_pc, io_result, utc_now, prev_cache, last_call,
              call_args, call_result, savers, reader_loaded>>

\* what status has read so far
status_vars == <<fetches, observed>>

frame_vars == <<cmds, cmd, account0, cache_file0, ctx, settings, lib_vars, status_vars>>

\* what the commands hold apart from the usage cache
command_vars == <<account, next_id, cmds, cmd, pc, result, account0, ctx, settings,
                  reqs, calls, prompts, sync_vars, timer, form, continue_vars,
                  generate_vars, fetches, observed>>

\* the usage cache, its files and the steps of its load and save
cache_vars == <<usage_cache, cache_file, cache_file0, saves, file_writes, config_dir,
                temp_file, io_pc, io_result, utc_now, prev_cache, last_call>>

\* ------------------------------------------------------------------------
\* Initial accounts
\* ------------------------------------------------------------------------
StoppedInit ==
    { TimeEntry(1, 0, Some(1000), None, FALSE, Some(1), Some(10)),
      TimeEntry(1, 0, Some(1000), Some(FreeNotes), FALSE, Some(1), Some(10)),
      TimeEntry(1, 0, Some(1000), Some(FreeNotes), FALSE, None, None),
      TimeEntry(1, 1, Some(1000), Some(FreeNotes), FALSE, Some(1), Some(10)) }

RunningInit ==
    { TimeEntry(2, 0, None, n, TRUE, Some(1), Some(10)) :
        n \in {None, Some(NoDescription), Some(FreeNotes),
               Some(ticket_notes(KeyA12, Summary))} }
    \cup { TimeEntry(2, 1, None, Some(FreeNotes), TRUE, Some(1), Some(10)) }

\* at most one running entry, as the service keeps it
InitAccounts ==
    {<<>>} \cup {<<s>> : s \in StoppedInit} \cup {<<r>> : r \in RunningInit}
           \cup {<<r, s>> : r \in RunningInit,
                            s \in {e \in StoppedInit : e.spent_date = 0 /\ is_some(e.project)}}

DefaultCtx ==
    [dry_run |-> FALSE, auto_start |-> FALSE, auto_stop |-> FALSE, quiet |-> FALSE]

DefaultSettings ==
    [auto_select_single |-> TRUE, project_id |-> None, task_id |-> None]

\* the version this program writes and the newest it reads
USAGE_FILE_VERSION == 1

\* UsageCache::new
new_cache == [version |-> USAGE_FILE_VERSION, projects |-> <<>>, tasks |-> <<>>]

EmptyForm ==
    [entry_type |-> "none", spent_date |-> 0, project |-> 0, task |-> 0,
     description |-> <<>>, hours |-> None]

\* the invocations that save the usage cache at the same time
Savers == {1, 2}

\* an invocation that has not begun to save
IdleSaver == [pc |-> "idle", cache |-> None, handle |-> "none", io_error |-> FALSE]

InitCommands(accounts) ==
    /\ account \in accounts
    /\ next_id = 3
    /\ cmds = 0
    /\ cmd = "none"
    /\ pc = "idle"
    /\ result = "none"
    /\ account0 = account
    /\ ctx = DefaultCtx
    /\ settings = DefaultSettings
    /\ reqs = <<>>
    /\ calls = <<>>
    /\ prompts = <<>>
    /\ tickets = <<>>
    /\ selected_ticket = None
    /\ timer = None
    /\ form = EmptyForm
    /\ usage_cache = None
    /\ cache_file0 = None
    /\ saves = 0
    /\ file_writes = 0
    /\ lookback_days = 1
    /\ valid_entries = <<>>
    /\ selected_entry = None
    /\ auto_approve = FALSE
    /\ llm_reply = <<>>
    /\ proposed_entries = <<>>
    /\ approved_entries = <<>>
    /\ fallback = None
    /\ idx = 0
    /\ created_count = 0
    /\ failed_count = 0
    /\ attempts = <<>>
    /\ fetches = 0
    /\ observed = [timer |-> None, entries |-> None, total |-> None]
    /\ savers = [w \in Savers |-> IdleSaver]
    /\ reader_loaded = None

\* no cache file yet, no load or save under way
InitCache ==
    /\ config_dir = TRUE
    /\ cache_file = None
    /\ temp_file = None
    /\ io_pc = "idle"
    /\ io_result = [op |-> "none", status |-> "none"]
    /\ utc_now = 0
    /\ prev_cache = None
    /\ last_call = None

\* no library function called on its own
InitCall ==
    /\ call_args = None
    /\ call_result = None

InitWith(accounts) == InitCommands(accounts) /\ InitCache /\ InitCall

Init == InitWith(InitAccounts)

\* ------------------------------------------------------------------------
\* Harvest client (src/harvest.rs)
\* ------------------------------------------------------------------------
\* a mutating client call or request: e is the entry it is about, status the
\* outcome ("ok", "e422" for 422 Unprocessable Entity, "err" for anything else)
Request(op, e, project_id, task_id, status) ==
    [op |-> op, id |-> e.id, is_running |-> e.is_running, spent_date |-> e.spent_date,
     notes |-> e.notes, project_id |-> project_id, task_id |-> task_id,
     hours |-> e.hours, status |-> status]

\* a client that sends the request whatever the context says
skip_http_never(c) == FALSE

\* the dry-run test at the head of every mutating client operation
skip_http(c) == c.dry_run

\* get_todays_time_entries: from = to = today
get_todays_time_entries(acct) == ServiceList(acct, 0, 0)

\* get_running_timer: the first running entry among today's entries
get_running_timer(acct) ==
    LET running(e) == e.is_running
    IN  first_of(SelectSeq(get_todays_time_entries(acct), running))

\* stop_time_entry(entry_id, ctx); http is the outcome of the PATCH when it is sent
stop_time_entry(acct, entry_id, c, http) ==
    LET e == TimeEntry(entry_id, 0, Some(0), None, FALSE, None, None)
    IN  IF skip_http(c)
        THEN [status |-> "ok", sent |-> <<>>, account |-> acct,
              call |-> Request("stop", e, None, None, "ok")]
        ELSE [status |-> http,
              sent |-> <<Request("stop", e, None, None, http)>>,
              account |-> IF http = "ok" THEN ServiceStop(acct, entry_id) ELSE acct,
              call |-> Request("stop", e, None, None, http)]

\* the POST /v2/time_entries shared by the create operations: e is the entry
\* the service stores on success, project_id and task_id what the body carries
post_time_entry(acct, e, project_id, task_id, c, http) ==
    IF skip_http(c)
    THEN [status |-> "ok", sent |-> <<>>, account |-> acct,
          call |-> Request("create", e, project_id, task_id, "ok")]
    ELSE [status |-> http,
          sent |-> <<Request("create", e, project_id, task_id, http)>>,
          account |-> IF http = "ok" THEN ServiceCreate(acct, e) ELSE acct,
          call |-> Request("create", e, project_id, task_id, http)]

\* create_time_entry(jira_ticket, description, jira_url, ctx): a running entry
\* dated today with the configured project and task (None: the service's default)
create_time_entry(acct, id, jira_ticket, description, cfg, c, http) ==
    LET project == IF is_some(cfg.project_id) THEN cfg.project_id ELSE Some(1)
        task == IF is_some(cfg.task_id) THEN cfg.task_id ELSE Some(10)
        e == TimeEntry(id, 0, Some(0), Some(ticket_notes(jira_ticket, description)),
                       TRUE, project, task)
    IN  post_time_entry(acct, e, cfg.project_id, cfg.task_id, c, http)

\* create_time_entry_with_date(description, project_id, task_id, spent_date, ctx)
create_time_entry_with_date(acct, id, description, project_id, task_id, spent_date, c, http) ==
    LET e == TimeEntry(id, spent_date, Some(0), Some(description), TRUE,
                       Some(project_id), Some(task_id))
    IN  post_time_entry(acct, e, Some(project_id), Some(task_id), c, http)

\* create_stopped_time_entry_with_date(description, project_id, task_id, hours, spent_date, ctx)
create_stopped_time_entry_with_date(acct, id, description, project_id, task_id, hours, spent_date, c, http) ==
    LET e == TimeEntry(id, spent_date, Some(hours), Some(description), FALSE,
                       Some(project_id), Some(task_id))
    IN  post_time_entry(acct, e, Some(project_id), Some(task_id), c, http)

\* create_stopped_time_entry(description, project_id, task_id, hours, ctx): dated today
create_stopped_time_entry(acct, id, description, project_id, task_id, hours, c, http) ==
    LET e == TimeEntry(id, 0, Some(hours), Some(description), FALSE,
                       Some(project_id), Some(task_id))
    IN  post_time_entry(acct, e, Some(project_id), Some(task_id), c, http)

\* list_entries(from_date, to_date) of the client (get_time_entries_range)
get_time_entries_range(acct, from, to) == ServiceList(acct, from, to)

\* start_timer_from_entry(entry, ctx): a new running entry for today cloned from
\* the entry's project, task and notes
start_timer_from_entry(acct, id, entry, c, http) ==
    LET e == TimeEntry(id, 0, Some(0), entry.notes, TRUE, entry.project, entry.task)
    IN  post_time_entry(acct, e, entry.project, entry.task, c, http)

\* ------------------------------------------------------------------------
\* Command bookkeeping
\* ------------------------------------------------------------------------
CanStart == pc \in {"idle", "done"} /\ cmds < MaxCmds

\* main(): build the context, dispatch the command; a command starts with
\* fresh locals
Begin(name, c, cfg, first) ==
    /\ CanStart
    /\ cmds' = cmds + 1
    /\ cmd' = name
    /\ pc' = first
    /\ result' = "none"
    /\ account0' = account
    /\ cache_file0' = cache_file
    /\ ctx' = c
    /\ settings' = cfg
    /\ reqs' = <<>>
    /\ calls' = <<>>
    /\ prompts' = <<>>
    /\ selected_ticket' = None
    /\ timer' = None
    /\ form' = EmptyForm
    /\ usage_cache' = None
    /\ saves' = 0
    /\ file_writes' = 0
    /\ valid_entries' = <<>>
    /\ selected_entry' = None
    /\ llm_reply' = <<>>
    /\ proposed_entries' = <<>>
    /\ approved_entries' = <<>>
    /\ fallback' = None
    /\ idx' = 0
    /\ created_count' = 0
    /\ failed_count' = 0
    /\ attempts' = <<>>
    /\ fetches' = 0
    /\ observed' = [timer |-> None, entries |-> None, total |-> None]
    /\ UNCHANGED <<account, next_id, cache_file, lib_vars>>

\* a command that does not read its arguments from the sync or continue flags
BeginPlain(name, c, first) ==
    /\ Begin(name, c, DefaultSettings, first)
    /\ tickets' = <<>>
    /\ lookback_days' = 1
    /\ auto_approve' = FALSE

\* the command returns r
Return(r) == pc' = "done" /\ result' = r

Goto(label) == pc' = label /\ UNCHANGED result

\* the command shows these prompts in a row; all but the last are answered,
\* the last gets this answer ("cancel": the prompt was aborted)
Prompts(names, answer) ==
    prompts' = prompts \o [i \in 1..Len(names) |->
                              [name |-> names[i],
                               answer |-> IF i = Len(names) THEN answer ELSE "answered",
                               writes_before |-> Len(reqs)]]

Prompt(name, answer) == Prompts(<<name>>, answer)

\* the effect of a mutating client operation's result r on the account and the logs
Apply(r) ==
    /\ account' = r.account
    /\ reqs' = reqs \o r.sent
    /\ calls' = Append(calls, r.call)
    /\ next_id' = IF Len(r.account) > Len(account) THEN next_id + 1 ELSE next_id

\* ------------------------------------------------------------------------
\* sync (src/main.rs run_sync)
\* ------------------------------------------------------------------------
\* main(): sync_ctx carries the --auto-start / --auto-stop flags
run_sync_start ==
    \E dry \in BOOLEAN, astart \in BOOLEAN, astop \in BOOLEAN, single \in BOOLEAN :
        /\ Begin("sync",
                 [dry_run |-> dry, auto_start |-> astart, auto_stop |-> astop,
                  quiet |-> FALSE],
                 [DefaultSettings EXCEPT !.auto_select_single = single],
                 "tickets")
        /\ tickets' = <<>>
        /\ lookback_days' = 1
        /\ auto_approve' = FALSE

\* Config::load, the repositories, today's commits, extract_tickets, the
\* clients, get_issues: an error, nothing to do, or the tickets
run_sync_tickets ==
    /\ cmd = "sync" /\ pc = "tickets"
    /\ \/ Return("err") /\ UNCHANGED tickets
       \/ Return("ok") /\ UNCHANGED tickets         \* no commits today, or no ticket keys
       \/ \E tl \in TicketLists : tickets' = tl /\ Goto("select")
    /\ UNCHANGED <<account, next_id, frame_vars, reqs, calls, prompts, selected_ticket,
                   timer, add_vars, continue_vars, generate_vars>>

\* the selection policy: TRUE when tickets[0] is taken without a prompt
takes_first_ticket(tl, cfg, c) ==
    IF Len(tl) = 1 /\ cfg.auto_select_single THEN TRUE
    ELSE IF Len(tl) = 1 \/ c.auto_start THEN TRUE
    ELSE FALSE

run_sync_select ==
    /\ cmd = "sync" /\ pc = "select"
    /\ IF takes_first_ticket(tickets, settings, ctx)
       THEN /\ selected_ticket' = Some(tickets[1])
            /\ Goto("running_timer")
            /\ UNCHANGED prompts
       ELSE \/ \E i \in 1..Len(tickets) :
                    /\ Prompt("ticket_selection", "answered")
                    /\ selected_ticket' = Some(tickets[i])
                    /\ Goto("running_timer")
            \/ /\ Prompt("ticket_selection", "cancel")
               /\ Return("cancelled")
               /\ UNCHANGED selected_ticket
    /\ UNCHANGED <<account, next_id, frame_vars, reqs, calls, tickets, timer,
                   add_vars, continue_vars, generate_vars>>

\* a reconciliation test that wants the notes to be the key itself
already_tracking_exact(t, key) ==
    is_some(t.notes) /\ unwrap(t.notes) = key

\* the reconciliation test: the running timer is already for this ticket
already_tracking(t, key) ==
    is_some(t.notes) /\ contains(unwrap(t.notes), key)

run_sync_running_timer ==
    /\ cmd = "sync" /\ pc = "running_timer"
    /\ \/ /\ Return("err")                       \* the GET failed
          /\ UNCHANGED timer
       \/ LET found == get_running_timer(account)
          IN  /\ timer' = found
              /\ IF is_some(found)
                 THEN IF already_tracking(unwrap(found), unwrap(selected_ticket).key)
                      THEN Return("ok")
                      ELSE Goto("confirm_stop")
                 ELSE Goto("create")
    /\ UNCHANGED <<account, next_id, frame_vars, reqs, calls, prompts, sync_vars,
                   add_vars, continue_vars, generate_vars>>

\* a sync that always stops the other timer without asking
asks_before_stop_never(c) == FALSE

\* whether sync asks before it stops the other timer
asks_before_stop(c) == ~c.auto_stop

run_sync_confirm_stop ==
    /\ cmd = "sync" /\ pc = "confirm_stop"
    /\ IF ~asks_before_stop(ctx)
       THEN Goto("stop") /\ UNCHANGED prompts
       ELSE \/ Prompt("confirm_stop_timer", "yes") /\ Goto("stop")
            \/ Prompt("confirm_stop_timer", "no") /\ Return("ok")
            \/ Prompt("confirm_stop_timer", "cancel") /\ Return("cancelled")
    /\ UNCHANGED <<account, next_id, frame_vars, reqs, calls, sync_vars, timer,
                   add_vars, continue_vars, generate_vars>>

run_sync_stop ==
    /\ cmd = "sync" /\ pc = "stop"
    /\ \E http \in {"ok", "err"} :
        LET r == stop_time_entry(account, unwrap(timer).id, ctx, http)
        IN  /\ Apply(r)
            /\ IF r.status = "ok" THEN Goto("create") ELSE Return("err")
    /\ UNCHANGED <<frame_vars, prompts, sync_vars, timer, add_vars, continue_vars, generate_vars>>

run_sync_create ==
    /\ cmd = "sync" /\ pc = "create"
    /\ \E http \in {"ok", "err"} :
        LET t == unwrap(selected_ticket)
            r == create_time_entry(account, next_id, t.key, t.summary, settings, ctx, http)
        IN  /\ Apply(r)
            /\ Return(IF r.status = "ok" THEN "ok" ELSE "err")
    /\ UNCHANGED <<frame_vars, prompts, sync_vars, timer, add_vars, continue_vars, generate_vars>>

\* ------------------------------------------------------------------------
\* status and stop (src/main.rs run_status, run_stop)
\* ------------------------------------------------------------------------
run_status_start ==
    \E dry \in BOOLEAN :
        BeginPlain("status", [DefaultCtx EXCEPT !.dry_run = dry], "reads")

\* run_status: three reads (running timer, today's entries, today's total), no write
run_status ==
    /\ cmd = "status" /\ pc = "reads"
    /\ \/ Return("ok")
       \/ Return("err")                          \* one of the GETs failed
    /\ UNCHANGED <<account, next_id, frame_vars, reqs, calls, prompts, sync_vars, timer,
                   add_vars, continue_vars, generate_vars>>

run_stop_start ==
    \E dry \in BOOLEAN :
        BeginPlain("stop", [DefaultCtx EXCEPT !.dry_run = dry], "running_timer")

run_stop ==
    /\ cmd = "stop" /\ pc = "running_timer"
    /\ \/ /\ Return("err")                       \* the GET failed
          /\ UNCHANGED <<account, next_id, reqs, calls, timer>>
       \/ LET found == get_running_timer(account)
          IN  /\ timer' = found
              /\ IF is_some(found)
                 THEN \E http \in {"ok", "err"} :
                        LET r == stop_time_entry(account, unwrap(found).id, ctx, http)
                        IN  Apply(r) /\ Return(IF r.status = "ok" THEN "ok" ELSE "err")
                 ELSE Return("ok") /\ UNCHANGED <<account, next_id, reqs, calls>>
    /\ UNCHANGED <<frame_vars, prompts, sync_vars, add_vars, continue_vars, generate_vars>>

\* ------------------------------------------------------------------------
\* Usage cache (src/usage.rs)
\* ------------------------------------------------------------------------
\* the upsert of record_project_usage / record_task_usage on one map
record_usage(map, id, now) ==
    IF id \in DOMAIN map
    THEN [map EXCEPT ![id] = [last_used |-> now, use_count |-> @.use_count + 1]]
    ELSE (id :> [last_used |-> now, use_count |-> 1]) @@ map

record_project_usage(cache, project_id, now) ==
    [cache EXCEPT !.projects = record_usage(@, project_id, now)]

record_task_usage(cache, task_id, now) ==
    [cache EXCEPT !.tasks = record_usage(@, task_id, now)]

\* ---- the cache file ----------------------------------------------------
\* most records a cache holds, and the highest use_count, in SpecCache
MaxUses == 2

\* most saves in one run of SpecCache
MaxSaves == 1

\* latest reading of the wall clock
MaxClock == 1

Clock == 0..MaxClock

RecordIds == {1, 2}

\* what a file can hold besides a document: text that is no UsageCache,
\* bytes that cannot be read as text, the beginning of a document
Malformed == [malformed |-> TRUE]

Unreadable == [unreadable |-> TRUE]

Partial == [partial |-> TRUE]

is_document(f) == "version" \in DOMAIN f

UsedOnce == [last_used |-> 1, use_count |-> 1]

\* the cache files a run can find: none, broken ones, documents of this
\* version and of a newer one
CacheFiles ==
    { None, Some(Malformed), Some(Unreadable), Some(new_cache),
      Some([new_cache EXCEPT !.projects = (1 :> UsedOnce)]),
      Some([new_cache EXCEPT !.version = USAGE_FILE_VERSION + 1,
                             !.tasks = (1 :> UsedOnce)]) }

Ok(v) == [status |-> "ok", value |-> Some(v)]

Err == [status |-> "err", value |-> None]

\* dirs::config_dir() joined with harv/usage.json: the path, or an error when
\* the configuration directory is not determinable
usage_file_path(dir) == IF dir THEN Ok("usage.json") ELSE Err

load_internal(dir, file) ==
    IF usage_file_path(dir).status = "err" THEN Err
    ELSE IF file = None THEN Err                              \* read_to_string
    ELSE IF ~is_document(unwrap(file)) THEN Err               \* from_str
    ELSE IF unwrap(file).version > USAGE_FILE_VERSION THEN Err
    ELSE Ok(unwrap(file))

load(dir, file) ==
    LET r == load_internal(dir, file)
    IN  IF r.status = "ok" THEN r
        ELSE IF usage_file_path(dir).status = "err" THEN Err  \* usage_file_path()?
        ELSE Ok(new_cache)

\* writing the document where it is read from
with_extension_same(path) == path

\* path.with_extension("tmp")
with_extension_tmp(path) == "usage.tmp"

temp_path == with_extension_tmp("usage.json")

write_file(path, content) ==
    IF path = "usage.json"
    THEN cache_file' = content /\ UNCHANGED temp_file
    ELSE temp_file' = content /\ UNCHANGED cache_file

\* fs::rename: the destination holds what the source held, the source is gone
rename_file(from, to) ==
    IF from = to
    THEN UNCHANGED <<cache_file, temp_file>>
    ELSE cache_file' = temp_file /\ temp_file' = None

cache_idle_vars == <<command_vars, call_args, call_result, savers, reader_loaded>>

cache_load ==
    /\ io_pc = "idle"
    /\ LET r == load(config_dir, cache_file)
       IN  /\ usage_cache' = r.value
           /\ io_result' = [op |-> "load", status |-> r.status]
    /\ prev_cache' = None /\ last_call' = None
    /\ UNCHANGED <<cache_idle_vars, config_dir, cache_file, temp_file, io_pc,
                   utc_now, cache_file0, saves, file_writes>>

uses(cache) == Cardinality(DOMAIN cache.projects) + Cardinality(DOMAIN cache.tasks)

use_count_of(map, id) == IF id \in DOMAIN map THEN map[id].use_count ELSE 0

\* one record_project_usage or record_task_usage call; Utc::now() is read
\* from the wall clock
cache_record ==
    /\ io_pc = "idle" /\ is_some(usage_cache)
    /\ \E map \in {"projects", "tasks"}, id \in RecordIds, t \in Clock :
         LET cache == unwrap(usage_cache)
         IN  /\ use_count_of(cache[map], id) < MaxUses
             /\ id \in DOMAIN cache[map] \/ uses(cache) < MaxUses
             /\ utc_now' = t
             /\ usage_cache' = Some(IF map = "projects"
                                    THEN record_project_usage(cache, id, t)
                                    ELSE record_task_usage(cache, id, t))
             /\ last_call' = Some([map |-> map, id |-> id])
    /\ prev_cache' = usage_cache
    /\ io_result' = [op |-> "record", status |-> "ok"]
    /\ UNCHANGED <<cache_idle_vars, config_dir, cache_file, temp_file, io_pc,
                   cache_file0, saves, file_writes>>

\* save() ends: every error of save_internal is logged and dropped
save_returns ==
    /\ io_pc' = "idle"
    /\ io_result' = [op |-> "save", status |-> "ok"]

save_vars == <<cache_idle_vars, usage_cache, config_dir, utc_now, prev_cache, last_call>>

\* save_internal: the path
cache_save_start ==
    /\ io_pc = "idle" /\ is_some(usage_cache) /\ saves < MaxSaves
    /\ saves' = saves + 1 /\ file_writes' = 0
    /\ cache_file0' = cache_file
    /\ IF usage_file_path(config_dir).status = "err"
       THEN save_returns
       ELSE io_pc' = "create_dir_all" /\ io_result' = [op |-> "save", status |-> "none"]
    /\ prev_cache' = None /\ last_call' = None
    /\ UNCHANGED <<cache_idle_vars, usage_cache, config_dir, utc_now, cache_file, temp_file>>

cache_save_create_dir_all ==
    /\ io_pc = "create_dir_all"
    /\ \/ io_pc' = "write" /\ UNCHANGED io_result
       \/ save_returns
    /\ UNCHANGED <<save_vars, cache_file, temp_file, cache_file0, saves, file_writes>>

\* fs::write creates or truncates the file, then writes the text
cache_save_write_begin ==
    /\ io_pc = "write"
    /\ \/ /\ write_file(temp_path, Some(Partial))
          /\ io_pc' = "writing" /\ UNCHANGED io_result
       \/ save_returns /\ UNCHANGED <<cache_file, temp_file>>
    /\ UNCHANGED <<save_vars, cache_file0, saves, file_writes>>

cache_save_write_end ==
    /\ io_pc = "writing"
    /\ \/ /\ write_file(temp_path, usage_cache)
          /\ io_pc' = "set_permissions" /\ UNCHANGED io_result
       \/ save_returns /\ UNCHANGED <<cache_file, temp_file>>
    /\ UNCHANGED <<save_vars, cache_file0, saves, file_writes>>

cache_save_set_permissions ==
    /\ io_pc = "set_permissions"
    /\ \/ io_pc' = "rename" /\ UNCHANGED io_result
       \/ save_returns
    /\ UNCHANGED <<save_vars, cache_file, temp_file, cache_file0, saves, file_writes>>

cache_save_rename ==
    /\ io_pc = "rename"
    /\ \/ /\ rename_file(temp_path, "usage.json")
          /\ file_writes' = file_writes + 1
       \/ UNCHANGED <<cache_file, temp_file, file_writes>>
    /\ save_returns
    /\ UNCHANGED <<save_vars, cache_file0, saves>>

\* the process is interrupted in the middle of a save
cache_crash ==
    /\ io_pc # "idle"
    /\ io_pc' = "idle"
    /\ io_result' = [op |-> "crash", status |-> "none"]
    /\ UNCHANGED <<save_vars, cache_file, temp_file, cache_file0, saves, file_writes>>

InitSpecCache ==
    /\ InitCommands({<<>>})
    /\ config_dir \in BOOLEAN
    /\ cache_file \in CacheFiles
    /\ temp_file = None
    /\ io_pc = "idle"
    /\ io_result = [op |-> "none", status |-> "none"]
    /\ utc_now = 0
    /\ prev_cache = None
    /\ last_call = None
    /\ InitCall

NextCache ==
    \/ cache_load
    \/ cache_record
    \/ cache_save_start
    \/ cache_save_create_dir_all
    \/ cache_save_write_begin
    \/ cache_save_write_end
    \/ cache_save_set_permissions
    \/ cache_save_rename
    \/ cache_crash

SpecCache == InitSpecCache /\ [][NextCache]_vars

\* ---- sort_by_usage -----------------------------------------------------
\* longest list handed to sort_by_usage
MaxItems == 3

\* Ord::cmp on integers
cmp(a, b) == IF a < b THEN "Less" ELSE IF a = b THEN "Equal" ELSE "Greater"

RECURSIVE str_cmp(_, _)
\* str::cmp: byte by byte, a proper prefix is less; a text is the tuple of its bytes
str_cmp(a, b) ==
    IF a = <<>> /\ b = <<>> THEN "Equal"
    ELSE IF a = <<>> THEN "Less"
    ELSE IF b = <<>> THEN "Greater"
    ELSE IF Head(a) # Head(b) THEN cmp(Head(a), Head(b))
    ELSE str_cmp(Tail(a), Tail(b))

to_ascii_lowercase(s) == [i \in 1..Len(s) |-> IF s[i] \in 65..90 THEN s[i] + 32 ELSE s[i]]

\* names compared without regard to letter case
name_cmp_ignore_case(a, b) == str_cmp(to_ascii_lowercase(a.name), to_ascii_lowercase(b.name))

\* a.name().cmp(b.name())
name_cmp(a, b) == str_cmp(a.name, b.name)

\* the closure handed to sort_by
usage_cmp(a, b, score_fn) ==
    LET score_a == score_fn[a.id]
        score_b == score_fn[b.id]
    IN  IF is_some(score_a) /\ is_some(score_b)
        THEN LET sa == unwrap(score_a)
                 sb == unwrap(score_b)
                 recency == cmp(sb.last_used, sa.last_used)
             IN  IF recency = "Equal" THEN cmp(sb.use_count, sa.use_count) ELSE recency
        ELSE IF is_some(score_a) THEN "Less"
        ELSE IF is_some(score_b) THEN "Greater"
        ELSE name_cmp(a, b)

RECURSIVE insert_sorted(_, _, _)
\* x goes behind every element that is not greater than it
insert_sorted(sorted, x, score_fn) ==
    IF sorted = <<>> THEN <<x>>
    ELSE IF usage_cmp(x, Head(sorted), score_fn) = "Less" THEN <<x>> \o sorted
    ELSE <<Head(sorted)>> \o insert_sorted(Tail(sorted), x, score_fn)

RECURSIVE sort_by(_, _)
\* Vec::sort_by: a stable sort
sort_by(items, score_fn) ==
    IF items = <<>> THEN <<>>
    ELSE insert_sorted(sort_by(SubSeq(items, 1, Len(items) - 1), score_fn),
                       items[Len(items)], score_fn)

sort_by_usage(items, score_fn) == sort_by(items, score_fn)

\* named items: "B", "a", "ab" as bytes
NamedItems ==
    { [id |-> 1, name |-> <<66>>], [id |-> 2, name |-> <<97>>], [id |-> 3, name |-> <<97, 98>>] }

UsageScores == [last_used : Clock, use_count : 1..MaxUses]

ScoreFns == [1..3 -> {None} \cup {Some(s) : s \in UsageScores}]

SortArgs ==
    { [fn |-> "sort_by_usage", items |-> items, score_fn |-> f] :
        items \in UNION {[1..n -> NamedItems] : n \in 0..MaxItems}, f \in ScoreFns }

\* a library function is applied to its arguments
Call(fn, value) ==
    /\ is_some(call_args) /\ unwrap(call_args).fn = fn
    /\ call_result = None
    /\ call_result' = Some(value)
    /\ UNCHANGED <<command_vars, cache_vars, call_args, savers, reader_loaded>>

sort_by_usage_call ==
    Call("sort_by_usage", sort_by_usage(unwrap(call_args).items, unwrap(call_args).score_fn))

InitCalls(args) ==
    /\ InitCommands({<<>>})
    /\ InitCache
    /\ call_args \in {Some(a) : a \in args}
    /\ call_result = None

InitSort == InitCalls(SortArgs)

NextSort == sort_by_usage_call

SpecSort == InitSort /\ [][NextSort]_vars

\* ------------------------------------------------------------------------
\* Ticket extraction (src/ticket_parser.rs); a text is the tuple of its
\* code points
\* ------------------------------------------------------------------------
\* longest enumerated message
MaxMessageLen == 4

AsciiUpper == 65..90

AsciiLower == 97..122

AsciiDigits == 48..57

Hyphen == 45

\* U+017F long s and U+212A Kelvin sign: the two letters outside ASCII whose
\* case folding is an ASCII letter
LongS == 383

KelvinSign == 8490

\* U+0660..U+0669, decimal digits outside ASCII
ArabicIndicDigits == 1632..1641

\* (?i)[a-z] with Unicode case folding
is_letter(c) == c \in AsciiUpper \cup AsciiLower \cup {LongS, KelvinSign}

\* \d in a Unicode regex: every decimal digit
is_digit(c) == c \in AsciiDigits \cup ArabicIndicDigits

\* the word characters of \b
is_word(c) == is_letter(c) \/ is_digit(c) \/ c = 95

\* char::to_uppercase on the code points above
char_to_uppercase(c) == IF c \in AsciiLower THEN c - 32 ELSE IF c = LongS THEN 83 ELSE c

to_uppercase(s) == [i \in 1..Len(s) |-> char_to_uppercase(s[i])]

RECURSIVE letters_end(_, _)
\* last position of the run of letters that starts at i
letters_end(msg, i) ==
    IF i < Len(msg) /\ is_letter(msg[i + 1]) THEN letters_end(msg, i + 1) ELSE i

RECURSIVE digits_end(_, _)
\* last position of the run of digits that starts at i
digits_end(msg, i) ==
    IF i < Len(msg) /\ is_digit(msg[i + 1]) THEN digits_end(msg, i + 1) ELSE i

\* the match of \b([a-z]+)-(\d+)\b that starts at i, if there is one
match_at(msg, i) ==
    IF ~(is_letter(msg[i]) /\ (i = 1 \/ ~is_word(msg[i - 1]))) THEN None
    ELSE LET j == letters_end(msg, i)
         IN  IF ~(j + 2 <= Len(msg) /\ msg[j + 1] = Hyphen /\ is_digit(msg[j + 2])) THEN None
             ELSE LET l == digits_end(msg, j + 2)
                  IN  IF l < Len(msg) /\ is_word(msg[l + 1]) THEN None
                      ELSE Some([prefix |-> SubSeq(msg, i, j),
                                 number |-> SubSeq(msg, j + 2, l), end |-> l])

RECURSIVE captures_iter(_, _)
\* the matches in a message from position i on, left to right, not overlapping
captures_iter(msg, i) ==
    IF i > Len(msg) THEN <<>>
    ELSE LET m == match_at(msg, i)
         IN  IF is_some(m)
             THEN <<unwrap(m)>> \o captures_iter(msg, unwrap(m).end + 1)
             ELSE captures_iter(msg, i + 1)

\* the tickets one message adds to the set
message_tickets(msg, denylist_upper) ==
    LET caps == captures_iter(msg, 1)
    IN  { to_uppercase(caps[k].prefix) \o <<Hyphen>> \o caps[k].number :
            k \in {n \in DOMAIN caps : to_uppercase(caps[n].prefix) \notin denylist_upper} }

RECURSIVE sort_texts(_)
\* Vec::sort on strings: ascending byte order
sort_texts(set) ==
    IF set = {} THEN <<>>
    ELSE LET least == CHOOSE x \in set : \A y \in set : str_cmp(x, y) # "Greater"
         IN  <<least>> \o sort_texts(set \ {least})

extract_tickets(commit_messages, denylist) ==
    LET denylist_upper == {to_uppercase(denylist[k]) : k \in DOMAIN denylist}
    IN  sort_texts(UNION {message_tickets(commit_messages[k], denylist_upper) :
                            k \in DOMAIN commit_messages})

\* 'A', 'a', 'b', '-', '1', U+0663, ' '
MessageChars == {65, 97, 98, Hyphen, 49, 1635, 32}

\* "a-1", "A-1", "b-1", "b-1 a-1", "ab-11", K-1 with the Kelvin sign
OtherMessages ==
    { <<97, Hyphen, 49>>, <<65, Hyphen, 49>>, <<98, Hyphen, 49>>,
      <<98, Hyphen, 49, 32, 97, Hyphen, 49>>, <<97, 98, Hyphen, 49, 49>>,
      <<KelvinSign, Hyphen, 49>> }

Messages == UNION {[1..n -> MessageChars] : n \in 0..MaxMessageLen}

\* "a", "B"
Denylists == { <<>>, << <<97>> >>, << <<66>> >> }

ExtractArgs ==
    { [fn |-> "extract_tickets", commit_messages |-> ms, denylist |-> d] :
        ms \in {<<m>> : m \in Messages} \cup {<<m, o>> : m \in Messages, o \in OtherMessages}
               \cup {<<o>> : o \in OtherMessages},
        d \in Denylists }

extract_tickets_call ==
    Call("extract_tickets",
         extract_tickets(unwrap(call_args).commit_messages, unwrap(call_args).denylist))

InitExtract == InitCalls(ExtractArgs)

NextExtract == extract_tickets_call

SpecExtract == InitExtract /\ [][NextExtract]_vars

\* ------------------------------------------------------------------------
\* Hours input (src/time_parser.rs); a text is the tuple of its characters,
\* an f64 is NaN or the exact fraction num / den
\* ------------------------------------------------------------------------
\* longest enumerated input
MaxInputLen == 4

DigitChars == {"0", "2", "4", "6"}

digit_value(c) == IF c = "0" THEN 0 ELSE IF c = "2" THEN 2 ELSE IF c = "4" THEN 4 ELSE 6

InputChars == DigitChars \cup {".", ":", "-", " ", "N", "a"}

Inputs == UNION {[1..n -> InputChars] : n \in 0..MaxInputLen}

Num(num, den) == [kind |-> "num", num |-> num, den |-> den]

NaN == [kind |-> "nan", num |-> 0, den |-> 1]

\* the IEEE comparisons used by parse_hours: false whenever NaN takes part
le_zero(h) == h.kind = "num" /\ h.num <= 0

gt_24(h) == h.kind = "num" /\ h.num > 24 * h.den

RECURSIVE trim_start(_)
trim_start(s) == IF s # <<>> /\ Head(s) = " " THEN trim_start(Tail(s)) ELSE s

RECURSIVE trim_end(_)
trim_end(s) == IF s # <<>> /\ s[Len(s)] = " " THEN trim_end(SubSeq(s, 1, Len(s) - 1)) ELSE s

trim(s) == trim_end(trim_start(s))

RECURSIVE digits_value(_)
\* the number a run of decimal digits writes
digits_value(s) ==
    IF s = <<>> THEN 0 ELSE digits_value(SubSeq(s, 1, Len(s) - 1)) * 10 + digit_value(s[Len(s)])

RECURSIVE pow10(_)
pow10(n) == IF n = 0 THEN 1 ELSE 10 * pow10(n - 1)

all_digits(s) == \A i \in DOMAIN s : s[i] \in DigitChars

\* str::parse::<u32>: digits only (a leading '+' is allowed, a '-' is not)
parse_u32(s) ==
    LET body == IF s # <<>> /\ Head(s) = "+" THEN Tail(s) ELSE s
    IN  IF body # <<>> /\ all_digits(body) THEN Ok(digits_value(body)) ELSE Err

\* str::parse::<f64>: an optional sign, then "NaN" or digits with at most
\* one point and at least one digit (no exponent among these characters)
parse_f64(s) ==
    LET signed == s # <<>> /\ Head(s) \in {"-", "+"}
        body == IF signed THEN Tail(s) ELSE s
        sign == IF signed /\ Head(s) = "-" THEN -1 ELSE 1
        points == {i \in DOMAIN body : body[i] = "."}
        digits == SelectSeq(body, LAMBDA c : c \in DigitChars)
    IN  IF body = <<"N", "a", "N">> THEN Ok(NaN)
        ELSE IF \/ Cardinality(points) > 1
                \/ digits = <<>>
                \/ Len(digits) + Cardinality(points) # Len(body)
             THEN Err
        ELSE LET decimals == IF points = {} THEN 0
                             ELSE Len(body) - (CHOOSE i \in points : TRUE)
             IN  Ok(Num(sign * digits_value(digits), pow10(decimals)))

parse_decimal(input) == parse_f64(input)

\* the positions of the colons
colons(s) == {i \in DOMAIN s : s[i] = ":"}

parse_colon_format(input) ==
    IF Cardinality(colons(input)) # 1 THEN Err             \* parts.len() != 2
    ELSE LET at == CHOOSE i \in colons(input) : TRUE
             hours == parse_u32(trim(SubSeq(input, 1, at - 1)))
             minutes == parse_u32(trim(SubSeq(input, at + 1, Len(input))))
         IN  IF hours.status = "err" THEN Err
             ELSE IF minutes.status = "err" THEN Err
             ELSE IF unwrap(minutes.value) >= 60 THEN Err
             ELSE Ok(Num(unwrap(hours.value) * 60 + unwrap(minutes.value), 60))

parse_hours(input) ==
    LET trimmed == trim(input)
    IN  IF trimmed = <<>> THEN Err
        ELSE LET hours == IF colons(trimmed) # {} THEN parse_colon_format(trimmed)
                          ELSE parse_decimal(trimmed)
             IN  IF hours.status = "err" THEN Err
                 ELSE IF le_zero(unwrap(hours.value)) THEN Err
                 ELSE IF gt_24(unwrap(hours.value)) THEN Err
                 ELSE hours

HoursArgs == { [fn |-> "parse_hours", input |-> s] : s \in Inputs }

parse_hours_call == Call("parse_hours", parse_hours(unwrap(call_args).input))

InitHours == InitCalls(HoursArgs)

NextHours == parse_hours_call

SpecHours == InitHours /\ [][NextHours]_vars

\* ------------------------------------------------------------------------
\* LLM reply parsing (src/ai/mod.rs parse_response); hours and confidence in
\* thousandths
\* ------------------------------------------------------------------------
\* most entries in an enumerated reply
MaxReplyLen == 2

\* the longest description the interactive prompt accepts
MaxDescriptionChars == 500

Filled(n) == [i \in 1..n |-> "a"]

AiDescriptions ==
    { <<>>, <<" ">>, <<"a">>, Filled(MaxDescriptionChars), Filled(MaxDescriptionChars + 1) }

AiHours == {-1000, 0, 1, 1500, 24000, 24001}

AiConfidences == {None, Some(-100), Some(0), Some(1000), Some(1500)}

AiTimeEntry(description, project_id, task_id, hours, confidence) ==
    [description |-> description, project_id |-> project_id, task_id |-> task_id,
     hours |-> hours, confidence |-> confidence]

AiTimeEntries ==
    { AiTimeEntry(d, 1, 10, h, c) : d \in AiDescriptions, h \in AiHours, c \in AiConfidences }

\* the text between the fences, or the whole text: a JSON document that
\* deserializes to an AiResponse, or one that does not
AiDocuments ==
    { [valid |-> FALSE, time_entries |-> <<>>] }
    \cup { [valid |-> TRUE, time_entries |-> es] :
             es \in UNION {[1..n -> AiTimeEntries] : n \in 0..MaxReplyLen} }

\* how the reply wraps the document: not at all, in a ```json block, in a
\* ``` block, or after an opening fence that is never closed
Wrappings == {"raw", "json_fence", "fence", "open_fence"}

\* the entry parse_response hands on
to_proposed(e) ==
    [description |-> e.description, project_id |-> e.project_id, task_id |-> e.task_id,
     hours |-> e.hours, confidence_score |-> e.confidence]

\* the checks of the validation loop
invalid_hours(e) == e.hours <= 0 \/ e.hours > 24000

empty_description(e) == trim(e.description) = <<>>

parse_response(wrapping, document) ==
    IF wrapping = "open_fence" THEN [status |-> "panic", value |-> None]  \* find().unwrap()
    ELSE IF ~document.valid THEN Err                                      \* serde_json::from_str
    ELSE IF \E i \in DOMAIN document.time_entries :
               invalid_hours(document.time_entries[i])
               \/ empty_description(document.time_entries[i])
         THEN Err
    ELSE Ok([i \in DOMAIN document.time_entries |-> to_proposed(document.time_entries[i])])

ResponseArgs ==
    { [fn |-> "parse_response", wrapping |-> w, document |-> d] :
        w \in Wrappings, d \in AiDocuments }

parse_response_call ==
    Call("parse_response",
         parse_response(unwrap(call_args).wrapping, unwrap(call_args).document))

InitResponse == InitCalls(ResponseArgs)

NextResponse == parse_response_call

SpecResponse == InitResponse /\ [][NextResponse]_vars

\* ------------------------------------------------------------------------
\* Today's commits (src/git.rs get_todays_commits); commit c's parents are
\* among the commits below c, a commit's message stands for the commit
\* ------------------------------------------------------------------------
\* number of commits in the repository
MaxCommits == 3

\* most local branches
MaxBranches == 2

\* the window: local midnight and the moment of the call
start_of_day == 0

now_ts == 1

\* committer times: before the window, in it, after it
CommitTimes == (start_of_day - 1)..(now_ts + 1)

Oids == 1..MaxCommits

CommitGraphs == { g \in [Oids -> SUBSET Oids] : \A c \in Oids : \A p \in g[c] : p < c }

Commit(oid, timestamp) == [message |-> oid, timestamp |-> timestamp]

\* the commit the revwalk yields next: the newest of those waiting
newest(waiting, times) == CHOOSE c \in waiting : \A d \in waiting : times[d] <= times[c]

RECURSIVE walk_branch(_, _, _, _, _)
\* the loop over one branch's revwalk: waiting and pushed are the walker's
\* queue and marks, acc the commits collected and the ids seen so far
walk_branch(waiting, pushed, acc, parents, times) ==
    IF waiting = {} THEN acc
    ELSE LET oid == newest(waiting, times)
             fresh == parents[oid] \ pushed
             rest == (waiting \ {oid}) \cup fresh
             timestamp == times[oid]
         IN  IF oid \in acc.seen_oids
             THEN walk_branch(rest, pushed \cup fresh, acc, parents, times)   \* continue
             ELSE IF timestamp >= start_of_day /\ timestamp <= now_ts
             THEN walk_branch(rest, pushed \cup fresh,
                              [seen_oids |-> acc.seen_oids \cup {oid},
                               all_commits |-> Append(acc.all_commits, Commit(oid, timestamp))],
                              parents, times)
             ELSE IF timestamp < start_of_day THEN acc                       \* break
             ELSE walk_branch(rest, pushed \cup fresh, acc, parents, times)

RECURSIVE walk_branches(_, _, _, _)
walk_branches(targets, acc, parents, times) ==
    IF targets = <<>> THEN acc
    ELSE walk_branches(Tail(targets),
                       walk_branch({Head(targets)}, {Head(targets)}, acc, parents, times),
                       parents, times)

RECURSIVE insert_commit(_, _)
\* x goes behind every commit that is not older than it
insert_commit(sorted, x) ==
    IF sorted = <<>> THEN <<x>>
    ELSE IF cmp(Head(sorted).timestamp, x.timestamp) = "Less" THEN <<x>> \o sorted
    ELSE <<Head(sorted)>> \o insert_commit(Tail(sorted), x)

RECURSIVE sort_commits(_)
\* all_commits.sort_by(|a, b| b.timestamp.cmp(&a.timestamp)), a stable sort
sort_commits(commits) ==
    IF commits = <<>> THEN <<>>
    ELSE insert_commit(sort_commits(SubSeq(commits, 1, Len(commits) - 1)),
                       commits[Len(commits)])

get_todays_commits(targets, parents, times) ==
    sort_commits(walk_branches(targets, [seen_oids |-> {}, all_commits |-> <<>>],
                               parents, times).all_commits)

\* the branch tips, in the order repo.branches yields them
BranchTargets ==
    { t \in UNION {[1..n -> Oids] : n \in 1..MaxBranches} :
        \A i, j \in DOMAIN t : t[i] = t[j] => i = j }

CommitsArgs ==
    { [fn |-> "get_todays_commits", targets |-> t, parents |-> g, times |-> ts] :
        t \in BranchTargets, g \in CommitGraphs, ts \in [Oids -> CommitTimes] }

get_todays_commits_call ==
    Call("get_todays_commits",
         get_todays_commits(unwrap(call_args).targets, unwrap(call_args).parents,
                            unwrap(call_args).times))

InitCommits == InitCalls(CommitsArgs)

NextCommits == get_todays_commits_call

SpecCommits == InitCommits /\ [][NextCommits]_vars

\* ------------------------------------------------------------------------
\* Commits of several repositories (src/git.rs get_commits_from_repositories)
\* ------------------------------------------------------------------------
MaxRepos == 2

MaxRepoCommits == 2

RepoCommits == {Commit("a", 1), Commit("b", 1), Commit("c", 0)}

\* what get_todays_commits returns for one repository: an error, or its
\* commits of today, newest first
RepoResults ==
    {Err} \cup { Ok(l) : l \in { s \in UNION {[1..n -> RepoCommits] : n \in 0..MaxRepoCommits} :
                                   /\ \A i, j \in DOMAIN s : s[i] = s[j] => i = j
                                   /\ \A i, j \in DOMAIN s : i < j => s[i].timestamp >= s[j].timestamp } }

RECURSIVE append_commits(_, _)
\* the loop over repo_paths: Ok appends the commits, Err is logged and skipped
append_commits(results, all_commits) ==
    IF results = <<>> THEN all_commits
    ELSE append_commits(Tail(results),
                        IF Head(results).status = "ok"
                        THEN all_commits \o unwrap(Head(results).value)
                        ELSE all_commits)

\* results[i] is what get_todays_commits(repo_paths[i]) returns
get_commits_from_repositories(results) == Ok(sort_commits(append_commits(results, <<>>)))

\* run_sync up to the check for commits: the error of
\* get_commits_from_repositories is returned, no commits end sync with Ok(())
sync_commits(results) ==
    LET commits == get_commits_from_repositories(results)
    IN  [commits |-> commits,
         sync |-> IF commits.status = "err" THEN "err"
                  ELSE IF unwrap(commits.value) = <<>> THEN "ok"
                  ELSE "continues"]

ReposArgs ==
    { [fn |-> "get_commits_from_repositories", results |-> r] :
        r \in UNION {[1..n -> RepoResults] : n \in 1..MaxRepos} }

get_commits_from_repositories_call ==
    Call("get_commits_from_repositories", sync_commits(unwrap(call_args).results))

InitRepos == InitCalls(ReposArgs)

NextRepos == get_commits_from_repositories_call

SpecRepos == InitRepos /\ [][NextRepos]_vars

\* ------------------------------------------------------------------------
\* Project and task listing (src/harvest.rs); a reply status is 200 or 403,
\* a result carries the requests the call sent, in order
\* ------------------------------------------------------------------------
ListedProjects == {1, 2}

TaskAssignment(is_active, task) == [is_active |-> is_active, task |-> task]

UserProjectAssignment(is_active, project, task_assignments) ==
    [is_active |-> is_active, project |-> project, task_assignments |-> task_assignments]

\* the user's project assignments: project p with the tasks 10p and 10p + 1,
\* the project and its first task active or not
AssignmentLists ==
    { [p \in ListedProjects |->
         UserProjectAssignment(pa[p], p,
                               <<TaskAssignment(ta[p], p * 10), TaskAssignment(TRUE, p * 10 + 1)>>)] :
        pa \in [ListedProjects -> BOOLEAN], ta \in [ListedProjects -> BOOLEAN] }

Statuses == {200, 403}

Listed(status, value, requests) == [status |-> status, value |-> value, requests |-> requests]

active_tasks(task_assignments) ==
    LET active(ta) == ta.is_active
        kept == SelectSeq(task_assignments, active)
    IN  [i \in DOMAIN kept |-> kept[i].task]

active_assignments(assignments) ==
    LET active(pa) == pa.is_active
    IN  SelectSeq(assignments, active)

\* GET projects?is_active=true answered 200: the service's active projects
projects_reply(assignments) ==
    LET kept == active_assignments(assignments)
    IN  [i \in DOMAIN kept |-> kept[i].project]

get_user_project_assignments(assignments) ==
    Listed("ok", projects_reply(assignments), <<"project_assignments">>)

get_projects(assignments, projects_status) ==
    IF projects_status = 403
    THEN LET r == get_user_project_assignments(assignments)
         IN  Listed(r.status, r.value, <<"projects">> \o r.requests)
    ELSE Listed("ok", projects_reply(assignments), <<"projects">>)

get_user_project_tasks(assignments, project_id) ==
    LET mine(pa) == pa.is_active /\ pa.project = project_id
        found == first_of(SelectSeq(assignments, mine))
    IN  IF found = None THEN Listed("err", <<>>, <<"project_assignments">>)
        ELSE Listed("ok", active_tasks(unwrap(found).task_assignments),
                    <<"project_assignments">>)

get_project_tasks(assignments, project_id, tasks_status) ==
    IF tasks_status[project_id] = 403
    THEN LET r == get_user_project_tasks(assignments, project_id)
         IN  Listed(r.status, r.value, <<"task_assignments">> \o r.requests)
    ELSE Listed("ok", active_tasks(assignments[project_id].task_assignments),
                <<"task_assignments">>)

get_all_tasks_from_user_assignments(assignments) ==
    LET kept == active_assignments(assignments)
        RECURSIVE pairs(_)
        pairs(i) ==
            IF i > Len(kept) THEN <<>>
            ELSE LET tasks == active_tasks(kept[i].task_assignments)
                 IN  [k \in DOMAIN tasks |-> <<kept[i].project, tasks[k]>>] \o pairs(i + 1)
    IN  Listed("ok", pairs(1), <<"project_assignments">>)

get_all_available_tasks(assignments, projects_status, tasks_status) ==
    IF projects_status = 403
    THEN LET r == get_all_tasks_from_user_assignments(assignments)
         IN  Listed(r.status, r.value, <<"projects">> \o r.requests)
    ELSE LET projects == projects_reply(assignments)
             RECURSIVE each(_)
             each(i) ==
                 IF i > Len(projects) THEN Listed("ok", <<>>, <<>>)
                 ELSE LET r == get_project_tasks(assignments, projects[i], tasks_status)
                          rest == each(i + 1)
                          got == IF r.status = "ok"
                                 THEN [k \in DOMAIN r.value |-> <<projects[i], r.value[k]>>]
                                 ELSE <<>>                     \* warn and continue
                      IN  Listed("ok", got \o rest.value, r.requests \o rest.requests)
             all == each(1)
         IN  Listed("ok", all.value, <<"projects">> \o all.requests)

ListArgs ==
    { [fn |-> f, assignments |-> a, projects_status |-> ps, tasks_status |-> ts,
       project_id |-> p] :
        f \in {"get_projects", "get_project_tasks", "get_all_available_tasks"},
        a \in AssignmentLists, ps \in Statuses, ts \in [ListedProjects -> Statuses],
        p \in ListedProjects }

get_projects_call ==
    Call("get_projects",
         get_projects(unwrap(call_args).assignments, unwrap(call_args).projects_status))

get_project_tasks_call ==
    Call("get_project_tasks",
         get_project_tasks(unwrap(call_args).assignments, unwrap(call_args).project_id,
                           unwrap(call_args).tasks_status))

get_all_available_tasks_call ==
    Call("get_all_available_tasks",
         get_all_available_tasks(unwrap(call_args).assignments,
                                 unwrap(call_args).projects_status,
                                 unwrap(call_args).tasks_status))

InitList == InitCalls(ListArgs)

NextList ==
    \/ get_projects_call
    \/ get_project_tasks_call
    \/ get_all_available_tasks_call

SpecList == InitList /\ [][NextList]_vars

\* ------------------------------------------------------------------------
\* add (src/main.rs run_add)
\* ------------------------------------------------------------------------
Descriptions == {FreeNotes}

HoursAnswers == {1500}

run_add_start ==
    \E dry \in BOOLEAN :
        BeginPlain("add", [DefaultCtx EXCEPT !.dry_run = dry], "load")

\* UsageCache::load (an error only when the path cannot be determined; an
\* unreadable or malformed file gives an empty cache), then steps 1 and 2:
\* prompt_entry_type, prompt_date_selection
run_add_load ==
    /\ cmd = "add" /\ pc = "load"
    /\ \/ Return("err") /\ UNCHANGED <<usage_cache, form, prompts>>
       \/ \E loaded \in {IF is_some(cache_file) THEN unwrap(cache_file) ELSE new_cache,
                         new_cache} :
            /\ usage_cache' = Some(loaded)
            /\ \/ /\ Prompts(<<"entry_type">>, "cancel")
                  /\ Return("cancelled") /\ UNCHANGED form
               \/ /\ Prompts(<<"entry_type", "date_selection">>, "cancel")
                  /\ Return("cancelled") /\ UNCHANGED form
               \/ \E t \in {"running", "stopped"}, d \in Dates :
                    /\ Prompts(<<"entry_type", "date_selection">>, "answered")
                    /\ form' = [form EXCEPT !.entry_type = t, !.spent_date = d]
                    /\ Goto("project")
    /\ UNCHANGED <<account, next_id, frame_vars, reqs, calls, sync_vars, timer,
                   cache_file, saves, file_writes, continue_vars, generate_vars>>

\* step 3: get_projects, sort_by_usage, prompt_project_selection (any listed project)
run_add_project ==
    /\ cmd = "add" /\ pc = "project"
    /\ \/ Return("err") /\ UNCHANGED <<form, prompts>>      \* the GET failed
       \/ /\ Prompt("project_selection", "cancel")
          /\ Return("cancelled") /\ UNCHANGED form
       \/ \E p \in ProjectIds :
            /\ Prompt("project_selection", "answered")
            /\ form' = [form EXCEPT !.project = p]
            /\ Goto("task")
    /\ UNCHANGED <<account, next_id, frame_vars, reqs, calls, sync_vars, timer,
                   usage_cache, cache_file, saves, file_writes, continue_vars, generate_vars>>

\* steps 4 to 7: get_project_tasks, sort_by_usage, prompt_task_selection,
\* prompt_description, prompt_hours (stopped entries only), confirm_entry_creation
run_add_task ==
    /\ cmd = "add" /\ pc = "task"
    /\ LET running == form.entry_type = "running"
           shown == IF running
                    THEN <<"task_selection", "description", "confirm_entry_creation">>
                    ELSE <<"task_selection", "description", "hours",
                           "confirm_entry_creation">>
       IN  \/ Return("err") /\ UNCHANGED <<form, prompts>>  \* the GET failed
           \/ \E n \in 1..Len(shown) :                   \* cancelled at the n-th prompt
                /\ Prompts(SubSeq(shown, 1, n), "cancel")
                /\ Return("cancelled") /\ UNCHANGED form
           \/ \E t \in TaskIdsOf(form.project), d \in Descriptions, h \in HoursAnswers :
                /\ form' = [form EXCEPT !.task = t, !.description = d,
                                        !.hours = IF running THEN None ELSE Some(h)]
                /\ \/ /\ Prompts(shown, "yes")
                      /\ Goto(IF running THEN "running_timer" ELSE "create")
                   \/ /\ Prompts(shown, "no")    \* not confirmed
                      /\ Return("ok")
    /\ UNCHANGED <<account, next_id, frame_vars, reqs, calls, sync_vars, timer,
                   usage_cache, cache_file, saves, file_writes, continue_vars, generate_vars>>

\* step 8: only when a running entry is being created
run_add_running_timer ==
    /\ cmd = "add" /\ pc = "running_timer"
    /\ \/ Return("err") /\ UNCHANGED <<timer, prompts>>     \* the GET failed
       \/ LET found == get_running_timer(account)
          IN  /\ timer' = found
              /\ IF is_some(found)
                 THEN \/ Prompt("confirm_stop_timer_for_new", "yes") /\ Goto("stop")
                      \/ Prompt("confirm_stop_timer_for_new", "no") /\ Return("ok")
                      \/ Prompt("confirm_stop_timer_for_new", "cancel")
                            /\ Return("cancelled")
                 ELSE Goto("create") /\ UNCHANGED prompts
    /\ UNCHANGED <<account, next_id, frame_vars, reqs, calls, sync_vars,
                   add_vars, continue_vars, generate_vars>>

run_add_stop ==
    /\ cmd = "add" /\ pc = "stop"
    /\ \E http \in {"ok", "err"} :
        LET r == stop_time_entry(account, unwrap(timer).id, ctx, http)
        IN  /\ Apply(r)
            /\ IF r.status = "ok" THEN Goto("create") ELSE Return("err")
    /\ UNCHANGED <<frame_vars, prompts, sync_vars, timer, add_vars, continue_vars, generate_vars>>

\* an add that records usage after a dry run too
records_usage_in_dry_run(status, c) == status = "ok"

\* whether run_add goes on to record usage after the create operation returned
records_usage(status, c) == status = "ok" /\ ~c.dry_run

\* steps 9 and 10: create the entry, then record usage and save the cache
run_add_create ==
    /\ cmd = "add" /\ pc = "create"
    /\ \E http \in {"ok", "err"}, io \in {"ok", "err"} :
        LET r == IF form.entry_type = "running"
                 THEN create_time_entry_with_date(account, next_id, form.description,
                          form.project, form.task, form.spent_date, ctx, http)
                 ELSE create_stopped_time_entry_with_date(account, next_id,
                          form.description, form.project, form.task,
                          unwrap(form.hours), form.spent_date, ctx, http)
            recorded == record_task_usage(
                            record_project_usage(unwrap(usage_cache), form.project, cmds),
                            form.task, cmds)
        IN  /\ Apply(r)
            /\ IF r.status # "ok"
               THEN /\ Return("err")
                    /\ UNCHANGED <<usage_cache, cache_file, saves, file_writes>>
               ELSE /\ IF records_usage(r.status, ctx)
                       THEN /\ usage_cache' = Some(recorded)
                            /\ saves' = saves + 1
                            /\ IF io = "ok"       \* save_internal: temp file, then rename
                               THEN /\ cache_file' = Some(recorded)
                                    /\ file_writes' = file_writes + 1
                               ELSE UNCHANGED <<cache_file, file_writes>>
                       ELSE UNCHANGED <<usage_cache, cache_file, saves, file_writes>>
                    /\ IF ctx.quiet THEN Return("ok") ELSE Goto("total")
    /\ UNCHANGED <<frame_vars, prompts, sync_vars, timer, form, continue_vars, generate_vars>>

\* get_total_hours_for_date, only when not quiet
run_add_total ==
    /\ cmd = "add" /\ pc = "total"
    /\ \/ Return("ok")
       \/ Return("err")
    /\ UNCHANGED <<account, next_id, frame_vars, reqs, calls, prompts, sync_vars, timer,
                   add_vars, continue_vars, generate_vars>>

\* ------------------------------------------------------------------------
\* continue (src/main.rs run_continue)
\* ------------------------------------------------------------------------
\* main(): continue_ctx carries --auto-start; days comes from --days
run_continue_start ==
    \E dry \in BOOLEAN, astart \in BOOLEAN, days \in {None, Some(2)} :
        /\ Begin("continue", [DefaultCtx EXCEPT !.dry_run = dry, !.auto_start = astart],
                 DefaultSettings, "fetch")
        /\ tickets' = <<>>
        /\ lookback_days' = IF is_some(days) THEN unwrap(days) ELSE 1
        /\ auto_approve' = FALSE

\* the entries that can be continued: stopped, with a project and a task
can_continue(e) == ~e.is_running /\ is_some(e.project) /\ is_some(e.task)

\* the notes shown for the selected entry
entry_notes(e) == IF is_some(e.notes) THEN unwrap(e.notes) ELSE NoDescription

\* the reconciliation test of continue: the running timer has these very notes
same_notes(t, notes) == is_some(t.notes) /\ unwrap(t.notes) = notes

\* get_time_entries_range, the two filters, prompt_entry_selection
run_continue_fetch ==
    /\ cmd = "continue" /\ pc = "fetch"
    /\ LET from_date == IF lookback_days = 1 THEN 0 ELSE lookback_days - 1
           valid == SelectSeq(get_time_entries_range(account, from_date, 0), can_continue)
       IN  \/ Return("err") /\ UNCHANGED <<valid_entries, selected_entry, prompts>>
           \/ /\ valid_entries' = valid
              /\ IF valid = <<>>
                 THEN Return("ok") /\ UNCHANGED <<selected_entry, prompts>>
                 ELSE \/ /\ Prompt("entry_selection", "cancel")
                         /\ Return("cancelled") /\ UNCHANGED selected_entry
                      \/ \E i \in 1..Len(valid) :
                           /\ Prompt("entry_selection", "answered")
                           /\ selected_entry' = Some(valid[i])
                           /\ Goto("running_timer")
    /\ UNCHANGED <<account, next_id, frame_vars, reqs, calls, sync_vars, timer,
                   add_vars, lookback_days, generate_vars>>

run_continue_running_timer ==
    /\ cmd = "continue" /\ pc = "running_timer"
    /\ \/ Return("err") /\ UNCHANGED <<timer, prompts>>     \* the GET failed
       \/ LET found == get_running_timer(account)
          IN  /\ timer' = found
              /\ IF is_some(found)
                 THEN IF same_notes(unwrap(found), entry_notes(unwrap(selected_entry)))
                      THEN Return("ok") /\ UNCHANGED prompts
                      ELSE IF ctx.auto_start
                           THEN Goto("stop") /\ UNCHANGED prompts
                           ELSE \/ Prompt("confirm_stop_timer", "yes") /\ Goto("stop")
                                \/ Prompt("confirm_stop_timer", "no") /\ Return("ok")
                                \/ Prompt("confirm_stop_timer", "cancel")
                                      /\ Return("cancelled")
                 ELSE Goto("start") /\ UNCHANGED prompts
    /\ UNCHANGED <<account, next_id, frame_vars, reqs, calls, sync_vars,
                   add_vars, continue_vars, generate_vars>>

run_continue_stop ==
    /\ cmd = "continue" /\ pc = "stop"
    /\ \E http \in {"ok", "err"} :
        LET r == stop_time_entry(account, unwrap(timer).id, ctx, http)
        IN  /\ Apply(r)
            /\ IF r.status = "ok" THEN Goto("start") ELSE Return("err")
    /\ UNCHANGED <<frame_vars, prompts, sync_vars, timer, add_vars, continue_vars, generate_vars>>

run_continue_start_timer ==
    /\ cmd = "continue" /\ pc = "start"
    /\ \E http \in {"ok", "err"} :
        LET r == start_timer_from_entry(account, next_id, unwrap(selected_entry), ctx, http)
        IN  /\ Apply(r)
            /\ Return(IF r.status = "ok" THEN "ok" ELSE "err")
    /\ UNCHANGED <<frame_vars, prompts, sync_vars, timer, add_vars, continue_vars, generate_vars>>

\* ------------------------------------------------------------------------
\* generate (src/main.rs run_generate)
\* ------------------------------------------------------------------------
\* ai::ProposedTimeEntry, as parse_response returns it
ProposedTimeEntry(description, project_id, task_id, hours) ==
    [description |-> description, project_id |-> project_id, task_id |-> task_id,
     hours |-> hours]

\* hours the LLM reports: 0.999, 1.001 and 1.006 (for each of them the f64
\* product hours * 100.0 truncates to the same integer as the exact product)
ReplyHours == {999, 1001, 1006}

\* the (project, task) assignments get_projects and get_all_available_tasks list
AssignedPairs == UNION {{<<p, t>> : t \in TaskIdsOf(p)} : p \in ProjectIds}

\* the last entry names project 1 with a task of project 2: the ids come
\* from the reply as they are
ReplyEntries ==
    {ProposedTimeEntry(<<"a">>, 2, 20, h) : h \in ReplyHours}
        \cup {ProposedTimeEntry(<<"b">>, 2, 20, 1001)}
        \cup {ProposedTimeEntry(<<"b">>, 1, 20, 1001)}

\* the lists generate_time_entries can return: parse_response has checked
\* 0 < hours <= 24 and a non-blank description on every entry
Replies == UNION {[1..k -> ReplyEntries] : k \in 0..MaxProposed}

\* the replies tried when generate runs among the other commands
SmallReplies == {<<>>, <<ProposedTimeEntry(<<"a">>, 2, 20, 1001)>>}

\* the answers given when an entry is edited in the review
EditHours == {1500}

BlankDescription == <<" ">>

\* the key of the retain: (description, project_id, task_id, (hours * 100.0) as i64)
dedup_key(e) == <<e.description, e.project_id, e.task_id, (e.hours * 100) \div 1000>>

\* Vec::retain with seen.insert(key): keeps an entry when its key is new
RECURSIVE retain_unseen(_, _)
retain_unseen(entries, seen) ==
    IF entries = <<>> THEN <<>>
    ELSE LET key == dedup_key(Head(entries))
         IN  IF key \in seen
             THEN retain_unseen(Tail(entries), seen)
             ELSE <<Head(entries)>> \o retain_unseen(Tail(entries), seen \cup {key})

dedup(entries) == retain_unseen(entries, {})

\* the fallback project and task: those of the first of today's entries
generate_fallback(existing_entries) ==
    IF existing_entries = <<>> THEN None
    ELSE LET entry == existing_entries[1]
         IN  IF is_some(entry.project) /\ is_some(entry.task)
             THEN Some(<<unwrap(entry.project), unwrap(entry.task)>>)
             ELSE None

\* a retry after any failure
retries_after_any_error(status, fb) == status # "ok" /\ is_some(fb)

\* the test that sends the second create: a 422 diagnostic and a fallback
retries_with_fallback(status, fb) == status = "e422" /\ is_some(fb)

\* the entries of s at the positions in sel, in order
select_indices(s, sel) ==
    LET F[i \in 0..Len(s)] ==
            IF i = 0 THEN <<>>
            ELSE IF i \in sel THEN Append(F[i - 1], s[i]) ELSE F[i - 1]
    IN  F[Len(s)]

\* main(): the context of generate never has auto_start or auto_stop
run_generate_start ==
    \E dry \in BOOLEAN, quiet \in BOOLEAN, auto \in BOOLEAN :
        /\ Begin("generate", [DefaultCtx EXCEPT !.dry_run = dry, !.quiet = quiet],
                 DefaultSettings, "summary")
        /\ tickets' = <<>>
        /\ lookback_days' = 1
        /\ auto_approve' = auto

\* Config::load, ai.enabled, the overrides, then the work summary: given with
\* --summary or asked for; a blank summary is an error
run_generate_summary ==
    /\ cmd = "generate" /\ pc = "summary"
    /\ \/ Return("err") /\ UNCHANGED prompts
       \/ Goto("fetch") /\ UNCHANGED prompts
       \/ Prompt("work_summary", "cancel") /\ Return("cancelled")
       \/ Prompt("work_summary", "answered") /\ Goto("fetch")
       \/ Prompt("work_summary", "answered") /\ Return("err")
    /\ UNCHANGED <<account, next_id, frame_vars, reqs, calls, sync_vars, timer,
                   add_vars, continue_vars, generate_vars>>

\* get_projects, get_todays_time_entries, get_total_hours_today,
\* get_all_available_tasks; fallback is computed from existing_entries
run_generate_fetch ==
    /\ cmd = "generate" /\ pc = "fetch"
    /\ \/ Return("err") /\ UNCHANGED fallback               \* one of the GETs failed
       \/ /\ fallback' = generate_fallback(get_todays_time_entries(account))
          /\ Goto("llm")
    /\ UNCHANGED <<account, next_id, frame_vars, reqs, calls, prompts, sync_vars, timer,
                   add_vars, continue_vars, auto_approve, llm_reply, proposed_entries,
                   approved_entries, idx, created_count, failed_count, attempts>>

\* generate_time_entries, the retain, and the approval when it needs no review
run_generate_llm(replies) ==
    /\ cmd = "generate" /\ pc = "llm"
    /\ \/ /\ Return("err")                       \* the provider or parse_response failed
          /\ UNCHANGED <<llm_reply, proposed_entries, approved_entries, idx>>
       \/ \E reply \in replies :
            LET kept == dedup(reply)
            IN  /\ llm_reply' = reply
                /\ proposed_entries' = kept
                /\ IF kept = <<>>
                   THEN Return("ok") /\ UNCHANGED <<approved_entries, idx>>
                   ELSE IF auto_approve \/ ctx.auto_start
                        THEN /\ approved_entries' = kept
                             /\ idx' = 1
                             /\ Goto("create")
                        ELSE Goto("review") /\ UNCHANGED <<approved_entries, idx>>
    /\ UNCHANGED <<account, next_id, frame_vars, reqs, calls, prompts, sync_vars, timer,
                   add_vars, continue_vars, auto_approve, fallback, created_count,
                   failed_count, attempts>>

\* a review that goes on to create the entries when the last question is aborted
finish_review_despite_cancel(list, proceed) ==
    IF proceed = "no"
    THEN approved_entries' = <<>> /\ idx' = 0 /\ Return("ok")
    ELSE approved_entries' = list /\ idx' = 1 /\ Goto("create")

\* what review_and_approve_entries returns after the last question
finish_review(list, proceed) ==
    IF proceed = "yes"
    THEN approved_entries' = list /\ idx' = 1 /\ Goto("create")
    ELSE IF proceed = "no"
    THEN approved_entries' = <<>> /\ idx' = 0 /\ Return("ok")
    ELSE UNCHANGED <<approved_entries, idx>> /\ Return("cancelled")

\* the prompts of editing k entries: hours, then description, for each
edit_prompts(k) ==
    [i \in 1..(2 * k) |-> IF i % 2 = 1 THEN "edit_hours" ELSE "edit_description"]

\* entry.hours = new_hours; entry.description = new_description
edit_entries(list, edited, hours, description) ==
    [i \in 1..Len(list) |->
        IF i \in edited
        THEN [list[i] EXCEPT !.hours = hours,
                             !.description = IF description = <<>> THEN @ ELSE description]
        ELSE list[i]]

\* prompt::review_and_approve_entries: the multi-select, the optional edits
\* (hours must parse, the description is taken as typed; <<>> stands for
\* keeping the default), the final confirmation
run_generate_review ==
    /\ cmd = "generate" /\ pc = "review"
    /\ \/ /\ Prompt("approve_entries", "cancel")
          /\ Return("cancelled") /\ UNCHANGED <<approved_entries, idx>>
       \/ /\ Prompt("approve_entries", "answered")           \* nothing selected
          /\ Return("ok") /\ UNCHANGED <<approved_entries, idx>>
       \/ \E sel \in (SUBSET (1..Len(proposed_entries))) \ {{}} :
            LET approved == select_indices(proposed_entries, sel)
                asked == <<"approve_entries", "want_edit">>
            IN  \/ /\ Prompts(asked, "cancel")
                   /\ Return("cancelled") /\ UNCHANGED <<approved_entries, idx>>
                \/ \E proceed \in {"yes", "no", "cancel"} :       \* no edits wanted
                       /\ Prompts(asked \o <<"proceed">>, proceed)
                       /\ finish_review(approved, proceed)
                \/ /\ Prompts(asked \o <<"edit_selection">>, "cancel")
                   /\ Return("cancelled") /\ UNCHANGED <<approved_entries, idx>>
                \/ \E n \in 1..2 :                            \* cancelled while editing
                       /\ Prompts(asked \o <<"edit_selection">> \o edit_prompts(1)
                                      \o SubSeq(edit_prompts(1), 1, n - 1), "cancel")
                       /\ Return("cancelled") /\ UNCHANGED <<approved_entries, idx>>
                \/ \E edited \in SUBSET (1..Len(approved)), h \in EditHours,
                      d \in {<<>>, BlankDescription}, proceed \in {"yes", "no", "cancel"} :
                       /\ Prompts(asked \o <<"edit_selection">>
                                      \o edit_prompts(Cardinality(edited))
                                      \o <<"proceed">>, proceed)
                       /\ finish_review(edit_entries(approved, edited, h, d), proceed)
    /\ UNCHANGED <<account, next_id, frame_vars, reqs, calls, sync_vars, timer,
                   add_vars, continue_vars, auto_approve, llm_reply, proposed_entries,
                   fallback, created_count, failed_count, attempts>>

\* the end of one iteration of the for loop; after the last one the summary,
\* and get_total_hours_today unless quiet
next_entry ==
    /\ idx' = idx + 1
    /\ IF idx < Len(approved_entries) THEN Goto("create")
       ELSE IF ctx.quiet THEN Return("ok") ELSE Goto("total")

\* the first create_stopped_time_entry for approved_entries[idx]
run_generate_create ==
    /\ cmd = "generate" /\ pc = "create"
    /\ \E http \in {"ok", "e422", "err"} :
        LET entry == approved_entries[idx]
            r == create_stopped_time_entry(account, next_id, entry.description,
                     entry.project_id, entry.task_id, entry.hours, ctx, http)
        IN  /\ Apply(r)
            /\ attempts' = Append(attempts, 1)
            /\ IF r.status = "ok"
               THEN /\ created_count' = created_count + 1
                    /\ next_entry
                    /\ UNCHANGED failed_count
               ELSE IF retries_with_fallback(r.status, fallback)
                    THEN /\ Goto("retry")
                         /\ UNCHANGED <<idx, created_count, failed_count>>
                    ELSE /\ failed_count' = failed_count + 1
                         /\ next_entry
                         /\ UNCHANGED created_count
    /\ UNCHANGED <<frame_vars, prompts, sync_vars, timer, add_vars, continue_vars,
                   auto_approve, llm_reply, proposed_entries, approved_entries, fallback>>

\* the retry with the fallback project and task
run_generate_retry ==
    /\ cmd = "generate" /\ pc = "retry"
    /\ \E http \in {"ok", "e422", "err"} :
        LET entry == approved_entries[idx]
            r == create_stopped_time_entry(account, next_id, entry.description,
                     unwrap(fallback)[1], unwrap(fallback)[2], entry.hours, ctx, http)
        IN  /\ Apply(r)
            /\ attempts' = [attempts EXCEPT ![idx] = 2]
            /\ IF r.status = "ok"
               THEN created_count' = created_count + 1 /\ UNCHANGED failed_count
               ELSE failed_count' = failed_count + 1 /\ UNCHANGED created_count
            /\ next_entry
    /\ UNCHANGED <<frame_vars, prompts, sync_vars, timer, add_vars, continue_vars,
                   auto_approve, llm_reply, proposed_entries, approved_entries, fallback>>

\* get_total_hours_today, only when not quiet
run_generate_total ==
    /\ cmd = "generate" /\ pc = "total"
    /\ \/ Return("ok")
       \/ Return("err")
    /\ UNCHANGED <<account, next_id, frame_vars, reqs, calls, prompts, sync_vars, timer,
                   add_vars, continue_vars, generate_vars>>

\* ------------------------------------------------------------------------
\* The program: a session of commands
\* ------------------------------------------------------------------------
Next ==
    \/ run_sync_start
    \/ run_sync_tickets
    \/ run_sync_select
    \/ run_sync_running_timer
    \/ run_sync_confirm_stop
    \/ run_sync_stop
    \/ run_sync_create
    \/ run_status_start
    \/ run_status
    \/ run_stop_start
    \/ run_stop
    \/ run_add_start
    \/ run_add_load
    \/ run_add_project
    \/ run_add_task
    \/ run_add_running_timer
    \/ run_add_stop
    \/ run_add_create
    \/ run_add_total
    \/ run_continue_start
    \/ run_continue_fetch
    \/ run_continue_running_timer
    \/ run_continue_stop
    \/ run_continue_start_timer
    \/ run_generate_start
    \/ run_generate_summary
    \/ run_generate_fetch
    \/ run_generate_llm(SmallReplies)
    \/ run_generate_review
    \/ run_generate_create
    \/ run_generate_retry
    \/ run_generate_total

Spec == Init /\ [][Next]_vars

\* ------------------------------------------------------------------------
\* generate alone, over every reply of up to MaxProposed entries
\* ------------------------------------------------------------------------
\* today's entries: none, one with project and task, one without, and one
\* without in front of one with
GenAccounts ==
    { <<>>,
      <<TimeEntry(1, 0, Some(1000), Some(FreeNotes), FALSE, Some(1), Some(10))>>,
      <<TimeEntry(1, 0, Some(1000), Some(FreeNotes), FALSE, None, None)>>,
      <<TimeEntry(2, 0, Some(1000), Some(FreeNotes), FALSE, None, None),
        TimeEntry(1, 0, Some(1000), Some(FreeNotes), FALSE, Some(1), Some(10))>> }

InitGen == InitWith(GenAccounts)

\* one invocation
run_generate_once == cmds = 0 /\ run_generate_start

NextGen ==
    \/ run_generate_once
    \/ run_generate_summary
    \/ run_generate_fetch
    \/ run_generate_llm(Replies)
    \/ run_generate_review
    \/ run_generate_create
    \/ run_generate_retry
    \/ run_generate_total

SpecGen == InitGen /\ [][NextGen]_vars

\* ------------------------------------------------------------------------
\* status next to another client of the account (src/main.rs run_status)
\* ------------------------------------------------------------------------
\* the entries the account holds at most
MaxEntries == 3

\* the sum of the hours of the entries that have hours
RECURSIVE total_hours(_)
total_hours(entries) ==
    IF entries = <<>> THEN 0
    ELSE (IF is_some(Head(entries).hours) THEN unwrap(Head(entries).hours) ELSE 0)
         + total_hours(Tail(entries))

\* get_total_hours_today: its own fetch of today's entries, then the sum
get_total_hours_today(acct) == total_hours(get_todays_time_entries(acct))

\* what one read of status leaves alone
status_read_vars == <<account, next_id, cmds, cmd, account0, cache_file0, ctx, settings,
                      lib_vars, reqs, calls, prompts, sync_vars, timer, add_vars,
                      continue_vars, generate_vars>>

status_begin ==
    \E dry \in BOOLEAN : BeginPlain("status", [DefaultCtx EXCEPT !.dry_run = dry], "get_running_timer")

\* let running_timer = client.get_running_timer()?
status_get_running_timer ==
    /\ cmd = "status" /\ pc = "get_running_timer"
    /\ fetches' = fetches + 1
    /\ \/ Return("err") /\ UNCHANGED observed
       \/ /\ observed' = [observed EXCEPT !.timer = Some(get_running_timer(account))]
          /\ Goto("get_todays_time_entries")
    /\ UNCHANGED status_read_vars

\* let today_entries = client.get_todays_time_entries()?
status_get_todays_time_entries ==
    /\ cmd = "status" /\ pc = "get_todays_time_entries"
    /\ fetches' = fetches + 1
    /\ \/ Return("err") /\ UNCHANGED observed
       \/ /\ observed' = [observed EXCEPT !.entries = Some(get_todays_time_entries(account))]
          /\ Goto("get_total_hours_today")
    /\ UNCHANGED status_read_vars

\* let total_hours = client.get_total_hours_today()?, then the report
status_get_total_hours_today ==
    /\ cmd = "status" /\ pc = "get_total_hours_today"
    /\ fetches' = fetches + 1
    /\ \/ Return("err") /\ UNCHANGED observed
       \/ /\ observed' = [observed EXCEPT !.total = Some(get_total_hours_today(account))]
          /\ Return("ok")
    /\ UNCHANGED status_read_vars

\* another client of the same account (the web page, a second terminal)
\* stops the running timer, starts one or books a stopped entry for today
other_client ==
    /\ \/ \E i \in 1..Len(account) :
            /\ account[i].is_running
            /\ account' = [ServiceStop(account, account[i].id) EXCEPT ![i].hours = Some(500)]
            /\ UNCHANGED next_id
       \/ /\ Len(account) < MaxEntries
          /\ RunningCount(account) = 0
          /\ account' = ServiceCreate(account,
                 TimeEntry(next_id, 0, None, Some(FreeNotes), TRUE, Some(1), Some(10)))
          /\ next_id' = next_id + 1
       \/ /\ Len(account) < MaxEntries
          /\ account' = ServiceCreate(account,
                 TimeEntry(next_id, 0, Some(1000), Some(FreeNotes), FALSE, Some(1), Some(10)))
          /\ next_id' = next_id + 1
    /\ UNCHANGED <<cmds, cmd, pc, result, account0, cache_file, cache_file0, ctx, settings,
                   lib_vars, status_vars, reqs, calls, prompts, sync_vars, timer, form,
                   usage_cache, saves, file_writes, continue_vars, generate_vars>>

NextStatus ==
    \/ status_begin
    \/ status_get_running_timer
    \/ status_get_todays_time_entries
    \/ status_get_total_hours_today
    \/ other_client

SpecStatus == InitWith(InitAccounts) /\ [][NextStatus]_vars

\* ------------------------------------------------------------------------
\* The date range of continue (src/main.rs run_continue); lookback_days is
\* a u8, and a build checks its arithmetic for overflow or lets it wrap
\* ------------------------------------------------------------------------
U8 == 0..(2^8 - 1)

Panic == [status |-> "panic", value |-> None]

\* a - b on u8
u8_sub(a, b, overflow_checks) ==
    IF a >= b THEN Ok(a - b)
    ELSE IF overflow_checks THEN Panic
    ELSE Ok((a - b + 2^8) % 2^8)

\* from_date and to_date, as days before today
continue_date_range(days, overflow_checks) ==
    LET back == u8_sub(days, 1, overflow_checks)
    IN  IF days = 1 THEN Ok([from_date |-> 0, to_date |-> 0])
        ELSE IF back.status = "panic" THEN Panic
        ELSE Ok([from_date |-> unwrap(back.value), to_date |-> 0])

RangeArgs ==
    { [fn |-> "continue_date_range", lookback_days |-> n, overflow_checks |-> c] :
        n \in U8, c \in BOOLEAN }

continue_date_range_call ==
    Call("continue_date_range",
         continue_date_range(unwrap(call_args).lookback_days, unwrap(call_args).overflow_checks))

InitRange == InitCalls(RangeArgs)

NextRange == continue_date_range_call

SpecRange == InitRange /\ [][NextRange]_vars

\* ------------------------------------------------------------------------
\* Two invocations saving the usage cache at the same time
\* (src/usage.rs save_internal).  Both use the same temporary path.  A file
\* is followed by its inode: a writer keeps writing to the file it opened
\* when another invocation renames that file in the meantime.
\* ------------------------------------------------------------------------
\* the content of a file in which the texts of two documents overlap
Mixed == [mixed |-> TRUE]

\* the caches the invocations save
SaverDocs ==
    { [new_cache EXCEPT !.projects = (1 :> UsedOnce)],
      [new_cache EXCEPT !.projects = (2 :> UsedOnce)],
      [new_cache EXCEPT !.projects = (1 :> UsedOnce), !.tasks = (1 :> UsedOnce)] }

\* write_all of the text of doc from offset 0 into a file holding old: the
\* text of a longer document keeps its tail
overlay(old, doc) ==
    IF old = None \/ old = Some(Partial) THEN Some(doc)
    ELSE IF is_document(unwrap(old)) /\ uses(doc) >= uses(unwrap(old)) THEN Some(doc)
    ELSE Some(Mixed)

saver_others == <<command_vars, usage_cache, cache_file0, saves, file_writes, config_dir,
                  io_pc, io_result, utc_now, prev_cache, last_call, call_args, call_result>>

\* save_internal returns an error that no other invocation caused
saver_fails(w) ==
    savers' = [savers EXCEPT ![w].pc = "done", ![w].io_error = TRUE]

\* save(): usage_file_path and create_dir_all
saver_start(w) ==
    /\ savers[w].pc = "idle"
    /\ \E doc \in SaverDocs :
         /\ \A v \in Savers : savers[v].cache # Some(doc)
         /\ \/ savers' = [savers EXCEPT ![w].pc = "write", ![w].cache = Some(doc)]
            \/ savers' = [savers EXCEPT ![w].pc = "done", ![w].cache = Some(doc),
                                        ![w].io_error = TRUE]
    /\ UNCHANGED <<saver_others, cache_file, temp_file, reader_loaded>>

\* fs::write(&temp_path, json) opens the file: it is created, or truncated
\* when it exists
saver_write_begin(w) ==
    /\ savers[w].pc = "write"
    /\ \/ /\ temp_file' = Some(Partial)
          /\ savers' = [savers EXCEPT ![w].pc = "writing", ![w].handle = "temp"]
       \/ saver_fails(w) /\ UNCHANGED temp_file
    /\ UNCHANGED <<saver_others, cache_file, reader_loaded>>

\* fs::write(&temp_path, json) writes the text to the file it opened,
\* wherever that file is linked by now
saver_write_end(w) ==
    /\ savers[w].pc = "writing"
    /\ \/ /\ savers' = [savers EXCEPT ![w].pc = "set_permissions"]
          /\ CASE savers[w].handle = "temp" ->
                    /\ temp_file' = overlay(temp_file, unwrap(savers[w].cache))
                    /\ UNCHANGED cache_file
               [] savers[w].handle = "real" ->
                    /\ cache_file' = overlay(cache_file, unwrap(savers[w].cache))
                    /\ UNCHANGED temp_file
               [] OTHER -> UNCHANGED <<cache_file, temp_file>>
       \/ saver_fails(w) /\ UNCHANGED <<cache_file, temp_file>>
    /\ UNCHANGED <<saver_others, reader_loaded>>

\* fs::metadata(&temp_path)? and fs::set_permissions(&temp_path, perms)?
saver_set_permissions(w) ==
    /\ savers[w].pc = "set_permissions"
    /\ IF temp_file = None
       THEN savers' = [savers EXCEPT ![w].pc = "done"]
       ELSE \/ savers' = [savers EXCEPT ![w].pc = "rename"]
            \/ saver_fails(w)
    /\ UNCHANGED <<saver_others, cache_file, temp_file, reader_loaded>>

\* fs::rename(&temp_path, &path)?: the file at the real path is replaced
\* and the temporary path is gone
saver_rename(w) ==
    /\ savers[w].pc = "rename"
    /\ IF temp_file = None
       THEN savers' = [savers EXCEPT ![w].pc = "done"] /\ UNCHANGED <<cache_file, temp_file>>
       ELSE \/ /\ cache_file' = temp_file
               /\ temp_file' = None
               /\ savers' = [v \in Savers |->
                    [savers[v] EXCEPT
                       !.pc = IF v = w THEN "done" ELSE @,
                       !.handle = IF @ = "temp" THEN "real"
                                  ELSE IF @ = "real" THEN "gone" ELSE @]]
            \/ saver_fails(w) /\ UNCHANGED <<cache_file, temp_file>>
    /\ UNCHANGED <<saver_others, reader_loaded>>

\* another invocation reads the real path (fs::read_to_string in load_internal)
reader_load ==
    /\ reader_loaded' = cache_file
    /\ UNCHANGED <<saver_others, cache_file, temp_file, savers>>

InitSavers ==
    /\ InitCommands({<<>>})
    /\ config_dir = TRUE
    /\ cache_file \in {None, Some(new_cache)}
    /\ temp_file = None
    /\ io_pc = "idle"
    /\ io_result = [op |-> "none", status |-> "none"]
    /\ utc_now = 0
    /\ prev_cache = None
    /\ last_call = None
    /\ InitCall

NextSavers ==
    \/ \E w \in Savers : saver_start(w)
    \/ \E w \in Savers : saver_write_begin(w)
    \/ \E w \in Savers : saver_write_end(w)
    \/ \E w \in Savers : saver_set_permissions(w)
    \/ \E w \in Savers : saver_rename(w)
    \/ reader_load

SpecSavers == InitSavers /\ [][NextSavers]_vars

\* ------------------------------------------------------------------------
\* Properties
\* ------------------------------------------------------------------------
\* the running command has shown this prompt
Asked(name) == \E i \in 1..Len(prompts) : prompts[i].name = name

\* ... and got this answer to it
Answered(name, answer) ==
    \E i \in 1..Len(prompts) : prompts[i].name = name /\ prompts[i].answer = answer

\* C1: in sync, whenever the running timer that was found has notes containing
\* the selected ticket key as a substring, the command has ended with success
\* and has called neither stop nor create (no request was sent), whatever the
\* ticket list, the flags and the commands run before.
C1_SyncAlreadyTracking ==
    (/\ cmd = "sync" /\ is_some(timer)
     /\ is_some(unwrap(timer).notes)
     /\ contains(unwrap(unwrap(timer).notes), unwrap(selected_ticket).key))
    => (pc = "done" /\ result = "ok" /\ reqs = <<>> /\ calls = <<>>)

\* a second command, sync for A-1, finds the timer of A-12 running: reconciled
C1_Witness ==
    /\ cmd = "sync" /\ cmds = 2 /\ pc = "done" /\ result = "ok"
    /\ is_some(timer)
    /\ unwrap(timer).notes = Some(ticket_notes(KeyA12, Summary))
    /\ unwrap(selected_ticket).key = KeyA1
    /\ calls = <<>>

\* C2: with dry_run set no command sends a mutating request, the account stays
\* as it was, and every mutating client operation that was called returned
\* success.
C2_DryRunSendsNothing ==
    ctx.dry_run =>
        /\ reqs = <<>>
        /\ account = account0
        /\ \A i \in 1..Len(calls) : calls[i].status = "ok"

\* a dry-run continue that stopped the running timer and started the new one
C2_Witness ==
    /\ ctx.dry_run /\ cmd = "continue" /\ pc = "done" /\ result = "ok"
    /\ Len(calls) = 2 /\ calls[1].op = "stop" /\ calls[2].op = "create"
    /\ RunningCount(account) = 1

C4_SyncOtherTimer ==
    (/\ cmd = "sync" /\ is_some(timer)
     /\ ~(/\ is_some(unwrap(timer).notes)
          /\ contains(unwrap(unwrap(timer).notes), unwrap(selected_ticket).key)))
    => /\ pc = "confirm_stop" => ~Asked("confirm_stop_timer")
       /\ pc # "confirm_stop" => (Asked("confirm_stop_timer") <=> ~ctx.auto_stop)
       /\ Answered("confirm_stop_timer", "no") =>
             (pc = "done" /\ result = "ok" /\ calls = <<>> /\ reqs = <<>>)
       /\ ((ctx.auto_stop \/ Answered("confirm_stop_timer", "yes"))
              /\ pc \notin {"confirm_stop", "stop"}) =>
             (/\ calls # <<>> /\ calls[1].op = "stop"
              /\ calls[1].id = unwrap(timer).id)
       /\ \A i \in 1..Len(calls) :
             calls[i].op = "create" =>
                 (/\ i = 2 /\ calls[1].op = "stop" /\ calls[1].status = "ok"
                  /\ calls[1].id = unwrap(timer).id)
       /\ \A i \in 1..Len(reqs) :
             reqs[i].op = "create" =>
                 (/\ i = 2 /\ reqs[1].op = "stop" /\ reqs[1].status = "ok"
                  /\ reqs[1].id = unwrap(timer).id)

\* asked, answered yes: the stop request, then the create request
C4_Witness ==
    /\ cmd = "sync" /\ pc = "done" /\ result = "ok"
    /\ is_some(timer) /\ unwrap(timer).notes = Some(FreeNotes)
    /\ Answered("confirm_stop_timer", "yes")
    /\ Len(reqs) = 2 /\ reqs[1].op = "stop" /\ reqs[2].op = "create"
    /\ RunningCount(account) = 1

\* C5: sync takes a ticket without the selection prompt exactly when one
\* ticket was fetched and auto_select_single or auto_start is on; in every
\* other case the selection prompt is shown.
C5_SelectsWithoutPromptExactlyWhen ==
    (cmd = "sync" /\ tickets # <<>> /\ pc # "select") =>
        (~Asked("ticket_selection")
            <=> (Len(tickets) = 1 /\ (settings.auto_select_single \/ ctx.auto_start)))

\* the sum of a sequence of numbers
RECURSIVE SumSeq(_)
SumSeq(q) == IF q = <<>> THEN 0 ELSE Head(q) + SumSeq(Tail(q))

\* C6: in generate every approved entry is processed once and ends as created
\* or failed (created + failed = entries processed, and all of them once the
\* loop is over); an entry gets one create_stopped call with its own project,
\* task, description and hours, and a second one exactly when the first ended
\* with 422 and a fallback exists, with the fallback ids and the same
\* description and hours; the loop goes on after a failure.
C6_EveryApprovedEntryOnce ==
    (cmd = "generate" /\ approved_entries # <<>>) =>
        LET n == Len(approved_entries)
            processed == IF pc \in {"create", "retry"} THEN idx - 1 ELSE n
            first(i) == 1 + SumSeq(SubSeq(attempts, 1, i - 1))
            is_create(c, e, project_id, task_id) ==
                /\ c.op = "create" /\ ~c.is_running
                /\ c.notes = Some(e.description) /\ c.hours = Some(e.hours)
                /\ c.project_id = Some(project_id) /\ c.task_id = Some(task_id)
            created == {i \in 1..processed : calls[first(i) + attempts[i] - 1].status = "ok"}
        IN  /\ pc \in {"create", "retry", "total", "done"}
            /\ pc \in {"total", "done"} => idx = n + 1
            /\ Len(attempts) = (IF pc = "retry" THEN idx ELSE idx - 1)
            /\ Len(calls) = SumSeq(attempts)
            /\ created_count + failed_count = processed
            /\ created_count = Cardinality(created)
            /\ \A i \in 1..Len(attempts) :
                  LET e == approved_entries[i]
                      c1 == calls[first(i)]
                  IN  /\ attempts[i] \in {1, 2}
                      /\ is_create(c1, e, e.project_id, e.task_id)
                      /\ attempts[i] = 2 =>
                            /\ c1.status = "e422" /\ is_some(fallback)
                            /\ is_create(calls[first(i) + 1], e,
                                         unwrap(fallback)[1], unwrap(fallback)[2])
                      /\ (attempts[i] = 1 /\ i <= processed) =>
                            ~(c1.status = "e422" /\ is_some(fallback))

\* the first entry failed twice (422, then the retry), the second was created
C6_Witness ==
    /\ cmd = "generate" /\ pc = "done" /\ result = "ok"
    /\ Len(approved_entries) = 2 /\ attempts = <<2, 1>>
    /\ calls[1].status = "e422" /\ calls[2].status = "err" /\ calls[3].status = "ok"
    /\ created_count = 1 /\ failed_count = 1
    /\ Len(account) = Len(account0) + 1

\* the key of the claim: hours rounded to the nearest hundredth
rounded_key(e) ==
    <<e.description, e.project_id, e.task_id, (e.hours * 100 + 500) \div 1000>>

\* C7: the proposed entries are the LLM's reply with every entry dropped whose
\* key (description, project_id, task_id, round(hours * 100)) occurred earlier
\* in the reply, in the reply's order.
C7_DedupByRoundedKey ==
    (cmd = "generate" /\ llm_reply # <<>>) =>
        proposed_entries =
            select_indices(llm_reply,
                {i \in 1..Len(llm_reply) :
                    \A j \in 1..(i - 1) : rounded_key(llm_reply[j]) # rounded_key(llm_reply[i])})

\* C8: of two entries of the LLM's reply with the same description, project
\* and task and hours less than 0.005 apart, exactly one is kept for submission.
C8_NearEqualHoursKeptOnce ==
    cmd = "generate" =>
        \A i \in 1..Len(llm_reply), j \in 1..Len(llm_reply) :
            LET a == llm_reply[i]
                b == llm_reply[j]
            IN  (/\ i < j
                 /\ a.description = b.description
                 /\ a.project_id = b.project_id /\ a.task_id = b.task_id
                 /\ a.hours - b.hours < 5 /\ b.hours - a.hours < 5)
                => Cardinality({k \in 1..Len(proposed_entries) :
                                    proposed_entries[k] \in {a, b}}) = 1

\* C9: in continue, when a running timer was found: the command has ended as
\* reconciled (success, nothing called, nothing asked) exactly when the timer's
\* notes equal the selected entry's notes; otherwise the user is asked exactly
\* when auto_start is off, and after a refusal nothing was called.
C9_ReconciledIffSameNotes ==
    (cmd = "continue" /\ is_some(timer)) =>
        LET same == unwrap(timer).notes = unwrap(selected_entry).notes
            reconciled == /\ pc = "done" /\ result = "ok" /\ calls = <<>>
                          /\ ~Asked("confirm_stop_timer")
        IN  /\ same <=> reconciled
            /\ ~same => (Asked("confirm_stop_timer") <=> ~ctx.auto_start)
            /\ Answered("confirm_stop_timer", "no") =>
                  (pc = "done" /\ calls = <<>> /\ reqs = <<>>)

\* C10: add has called save once exactly when its create operation succeeded
\* with dry_run off, and then the cache is the loaded one with the chosen
\* project and task counted once more; in every other case the cache is as
\* loaded and the file as it was.  No other command saves or writes the file.
C10_UsageSavedExactlyOnSuccess ==
    /\ cmd # "add" => (saves = 0 /\ file_writes = 0 /\ cache_file = cache_file0)
    /\ cmd = "add" =>
        LET created == /\ calls # <<>> /\ calls[Len(calls)].op = "create"
                       /\ calls[Len(calls)].status = "ok"
            loaded == {new_cache} \cup (IF is_some(cache_file0) THEN {unwrap(cache_file0)}
                                                                ELSE {})
            count(map, id) == IF id \in DOMAIN map THEN map[id].use_count ELSE 0
            counted(old, new, id) ==
                /\ DOMAIN new = DOMAIN old \cup {id}
                /\ new[id] = [last_used |-> cmds, use_count |-> count(old, id) + 1]
                /\ \A k \in DOMAIN old \ {id} : new[k] = old[k]
        IN  /\ saves = (IF created /\ ~ctx.dry_run THEN 1 ELSE 0)
            /\ file_writes <= saves
            /\ file_writes = 0 => cache_file = cache_file0
            /\ file_writes = 1 => cache_file = usage_cache
            /\ saves = 0 => usage_cache \in {None} \cup {Some(c) : c \in loaded}
            /\ saves = 1 =>
                  \E c \in loaded :
                      /\ counted(c.projects, unwrap(usage_cache).projects, form.project)
                      /\ counted(c.tasks, unwrap(usage_cache).tasks, form.task)

\* the second add of the session on the same project: loaded from the file
\* the first one wrote, counted twice, saved again
C10_Witness ==
    /\ cmd = "add" /\ cmds = 2 /\ pc = "done" /\ result = "ok"
    /\ saves = 1 /\ file_writes = 1
    /\ unwrap(usage_cache).projects[form.project].use_count = 2
    /\ cache_file = usage_cache

\* ---- usage cache file (SpecCache) ----
\* C11: the usage cache never fails its caller. Whatever the file system or
\* the environment does (file missing, unreadable, malformed, of a newer
\* version, configuration directory not determinable, a write or the rename
\* failing), neither load() nor save() returns an error, and a load() that
\* could not read a valid document returns the empty cache.
C11_CacheNeverFails ==
    /\ io_result.status # "err"
    /\ (io_result.op = "load" /\ load_internal(config_dir, cache_file).status = "err")
          => usage_cache = Some(new_cache)

\* C12: save is atomic with respect to an interruption. From the start of a
\* save, through each of its steps and after an interruption at any of them,
\* the file at the real path holds what it held when the save started for as
\* long as the rename has not happened, and the complete new document once it
\* has; at no time does the real path hold the beginning of a document, so a
\* later load() cannot read one.
C12_SaveAtomic ==
    /\ cache_file # Some(Partial)
    /\ io_result.op \in {"save", "crash"}
          => IF file_writes = 0 THEN cache_file = cache_file0 ELSE cache_file = usage_cache

\* a save interrupted in the middle of the temp-file write, the previous
\* document still in place and different from the one being saved
C12_Witness ==
    /\ io_result.op = "crash"
    /\ temp_file = Some(Partial)
    /\ is_some(cache_file) /\ is_document(unwrap(cache_file))
    /\ cache_file = cache_file0
    /\ cache_file # usage_cache

\* C14: a record_project_usage / record_task_usage call for id x raises x's
\* use_count in that map by exactly 1 (to 1 when x was absent), leaves every
\* other record of both maps as it was, and lowers no record's use_count or
\* last_used.
C14_RecordMonotonic ==
    is_some(last_call) =>
        LET before == unwrap(prev_cache)
            after == unwrap(usage_cache)
            c == unwrap(last_call)
        IN  /\ use_count_of(after[c.map], c.id) = use_count_of(before[c.map], c.id) + 1
            /\ \A m \in {"projects", "tasks"} :
                 /\ DOMAIN after[m] = DOMAIN before[m] \cup (IF m = c.map THEN {c.id} ELSE {})
                 /\ \A i \in DOMAIN before[m] :
                      /\ (m # c.map \/ i # c.id) => after[m][i] = before[m][i]
                      /\ after[m][i].use_count >= before[m][i].use_count
                      /\ after[m][i].last_used >= before[m][i].last_used

\* ---- sort_by_usage (SpecSort) ----
Count(seq, x) == Cardinality({i \in DOMAIN seq : seq[i] = x})

\* C13: for every list of named items and every score function,
\* sort_by_usage returns a permutation of its input in which every scored
\* item comes before every unscored one, scored items are in descending
\* order of last_used with equal last_used in descending order of use_count,
\* and unscored items are in ascending byte order of their names.
C13_SortByUsage ==
    (is_some(call_result) /\ unwrap(call_args).fn = "sort_by_usage") =>
        LET args == unwrap(call_args)
            out == unwrap(call_result)
            score(i) == args.score_fn[out[i].id]
        IN  /\ Len(out) = Len(args.items)
            /\ \A x \in NamedItems : Count(out, x) = Count(args.items, x)
            /\ \A i, j \in DOMAIN out :
                 i < j =>
                   /\ is_some(score(j)) => is_some(score(i))
                   /\ (is_some(score(i)) /\ is_some(score(j))) =>
                        \/ unwrap(score(i)).last_used > unwrap(score(j)).last_used
                        \/ /\ unwrap(score(i)).last_used = unwrap(score(j)).last_used
                           /\ unwrap(score(i)).use_count >= unwrap(score(j)).use_count
                   /\ (score(i) = None /\ score(j) = None) =>
                        str_cmp(out[i].name, out[j].name) # "Greater"

\* "a", "B" and "ab" in, "a" the only scored one: out come "a", "B", "ab"
C13_Witness ==
    /\ is_some(call_result)
    /\ unwrap(call_args).fn = "sort_by_usage"
    /\ Len(unwrap(call_args).items) = 3
    /\ [i \in 1..3 |-> unwrap(call_args).items[i].id] = <<3, 1, 2>>
    /\ [i \in 1..3 |-> is_some(unwrap(call_args).score_fn[i])] = <<FALSE, TRUE, FALSE>>
    /\ [i \in 1..3 |-> unwrap(call_result)[i].id] = <<2, 1, 3>>

\* ---- extract_tickets (SpecExtract) ----
\* one or more uppercase ASCII letters, a hyphen, one or more ASCII digits
is_ticket_id(t) ==
    \E h \in 2..(Len(t) - 1) :
        /\ t[h] = Hyphen
        /\ \A i \in 1..(h - 1) : t[i] \in AsciiUpper
        /\ \A i \in (h + 1)..Len(t) : t[i] \in AsciiDigits

prefix_of(t) == SubSeq(t, 1, (CHOOSE h \in 1..Len(t) : t[h] = Hyphen) - 1)

\* C15: for every list of messages and every denylist, extract_tickets
\* returns a strictly ascending list (so without duplicates) in which every
\* element is one or more uppercase ASCII letters, a hyphen and one or more
\* ASCII decimal digits, no element's prefix equals a denylist entry when
\* letter case is ignored, and no two elements differ only in letter case.
C15_ExtractTickets ==
    (is_some(call_result) /\ unwrap(call_args).fn = "extract_tickets") =>
        LET out == unwrap(call_result)
            denylist == unwrap(call_args).denylist
        IN  /\ \A i \in 1..(Len(out) - 1) : str_cmp(out[i], out[i + 1]) = "Less"
            /\ \A i \in DOMAIN out :
                 /\ is_ticket_id(out[i])
                 /\ \A k \in DOMAIN denylist :
                      to_uppercase(prefix_of(out[i])) # to_uppercase(denylist[k])
            /\ \A i, j \in DOMAIN out :
                 to_uppercase(out[i]) = to_uppercase(out[j]) => i = j

\* ---- parse_hours (SpecHours) ----
\* C16: for every input, parse_hours returns an error or a value h with
\* 0 < h <= 24 (so every empty, non-numeric, zero, negative or
\* greater-than-24 input is rejected); an input with a colon is accepted
\* only when it has exactly two parts that are non-negative integers with
\* minutes in 0..59, and its value is then h + m/60.
C16_ParseHours ==
    (is_some(call_result) /\ unwrap(call_args).fn = "parse_hours") =>
        LET r == unwrap(call_result)
            input == trim(unwrap(call_args).input)
        IN  r.status = "ok" =>
              LET h == unwrap(r.value)
              IN  /\ h.kind = "num"
                  /\ 0 < h.num /\ h.num <= 24 * h.den
                  /\ colons(input) # {} =>
                        \E at \in DOMAIN input :
                           LET hh == trim(SubSeq(input, 1, at - 1))
                               mm == trim(SubSeq(input, at + 1, Len(input)))
                           IN  /\ colons(input) = {at}
                               /\ hh # <<>> /\ all_digits(hh)
                               /\ mm # <<>> /\ all_digits(mm)
                               /\ digits_value(mm) \in 0..59
                               /\ h.num * 60 = (digits_value(hh) * 60 + digits_value(mm)) * h.den

\* ---- parse_response (SpecResponse) ----
\* the constraints of a proposed entry
satisfies_constraints(hours, description, confidence) ==
    /\ 0 < hours /\ hours <= 24000
    /\ trim(description) # <<>>
    /\ Len(description) <= MaxDescriptionChars
    /\ confidence = None \/ (0 <= unwrap(confidence) /\ unwrap(confidence) <= 1000)

\* C17: every entry of a list that parse_response returns successfully has
\* 0 < hours <= 24, a description that is non-empty after trimming and of at
\* most 500 characters, and a confidence that is absent or within [0,1]; a
\* reply with any entry that breaks one of these is rejected as a whole.
C17_ParsedEntriesValid ==
    (is_some(call_result) /\ unwrap(call_args).fn = "parse_response") =>
        LET r == unwrap(call_result)
            entries == unwrap(call_args).document.time_entries
        IN  /\ r.status = "ok" =>
                 \A i \in DOMAIN unwrap(r.value) :
                    LET e == unwrap(r.value)[i]
                    IN  satisfies_constraints(e.hours, e.description, e.confidence_score)
            /\ (\E i \in DOMAIN entries :
                   ~satisfies_constraints(entries[i].hours, entries[i].description,
                                          entries[i].confidence))
                 => r.status # "ok"

\* ---- get_todays_commits (SpecCommits) ----
RECURSIVE reachable(_, _)
\* the commits reachable from a set of commits
reachable(from, parents) ==
    LET more == from \cup UNION {parents[c] : c \in from}
    IN  IF more = from THEN from ELSE reachable(more, parents)

\* C18: for every commit graph and every assignment of committer times,
\* get_todays_commits returns exactly once each, in descending order of
\* timestamp, the commits reachable from a local branch tip whose committer
\* time lies between local midnight and now, and no other commit.
C18_TodaysCommits ==
    (is_some(call_result) /\ unwrap(call_args).fn = "get_todays_commits") =>
        LET args == unwrap(call_args)
            out == unwrap(call_result)
            tips == {args.targets[k] : k \in DOMAIN args.targets}
            today == {c \in reachable(tips, args.parents) :
                        args.times[c] >= start_of_day /\ args.times[c] <= now_ts}
        IN  /\ {out[i].message : i \in DOMAIN out} = today
            /\ Len(out) = Cardinality(today)
            /\ \A i \in DOMAIN out : out[i].timestamp = args.times[out[i].message]
            /\ \A i \in 1..(Len(out) - 1) : out[i].timestamp >= out[i + 1].timestamp

\* ---- project and task of created entries (SpecGen) ----
\* C19: every request that creates a time entry carries a (project_id,
\* task_id) pair that the service listed as an assignment during the run, or
\* no pair at all; generate submits no pair outside the assignments it
\* listed.
C19_OnlyListedPairs ==
    \A i \in DOMAIN reqs :
        reqs[i].op = "create" =>
            \/ reqs[i].project_id = None /\ reqs[i].task_id = None
            \/ /\ is_some(reqs[i].project_id) /\ is_some(reqs[i].task_id)
               /\ <<unwrap(reqs[i].project_id), unwrap(reqs[i].task_id)>> \in AssignedPairs

\* ---- running_timer (Spec) ----
\* C20: get_running_timer returns the account's running entry whenever the
\* account has one, whatever that entry's spent_date, and returns none only
\* when no entry of the account is running. Stated on the lookup `stop`
\* makes as its first step, on the account as the command found it.
C20_RunningTimerWhateverDate ==
    (cmd = "stop" /\ pc = "done" /\ (result = "ok" \/ calls # <<>>)) =>
        /\ timer = None <=> RunningCount(account0) = 0
        /\ is_some(timer) =>
              \E i \in DOMAIN account0 : account0[i] = unwrap(timer) /\ account0[i].is_running

\* ---- generate's fallback (SpecGen) ----
\* C21: in generate, once today's entries are fetched, a fallback exists
\* whenever at least one of them has both a project and a task, and it is the
\* (project id, task id) of the most recent such entry; there is no fallback
\* only when no entry has both.
C21_FallbackFromMostRecentWithBoth ==
    (cmd = "generate" /\ pc \in {"llm", "review", "create", "retry", "total"}) =>
        LET has_both(e) == is_some(e.project) /\ is_some(e.task)
            with_both == SelectSeq(get_todays_time_entries(account0), has_both)
        IN  IF with_both = <<>>
            THEN fallback = None
            ELSE fallback = Some(<<unwrap(with_both[1].project), unwrap(with_both[1].task)>>)

\* ---- project and task listing (SpecList) ----
\* C22: one call of get_projects, get_project_tasks or
\* get_all_available_tasks sends at most one request to
\* users/me/project_assignments, whatever mix of 200 and 403 the projects
\* endpoint and the per-project task_assignments endpoints reply; a project
\* in the result is an active project assignment and a task in it an active
\* task assignment of its project.
C22_OneAssignmentsRequest ==
    (is_some(call_result)
       /\ unwrap(call_args).fn \in {"get_projects", "get_project_tasks",
                                    "get_all_available_tasks"}) =>
        LET args == unwrap(call_args)
            r == unwrap(call_result)
            active_task(p, t) ==
                \E k \in DOMAIN args.assignments[p].task_assignments :
                    /\ args.assignments[p].task_assignments[k].task = t
                    /\ args.assignments[p].task_assignments[k].is_active
        IN  /\ Cardinality({i \in DOMAIN r.requests : r.requests[i] = "project_assignments"}) <= 1
            /\ r.status = "ok" =>
                 \A i \in DOMAIN r.value :
                    IF args.fn = "get_projects"
                    THEN args.assignments[r.value[i]].is_active
                    ELSE IF args.fn = "get_project_tasks"
                    THEN active_task(args.project_id, r.value[i])
                    ELSE /\ args.assignments[r.value[i][1]].is_active
                         /\ active_task(r.value[i][1], r.value[i][2])

\* ---- status next to another client (SpecStatus) ----
\* C23: a status command that ends with success has fetched today's entries
\* at most once, and the running timer, the entry list and the day total it
\* reports agree with each other: the timer is the first running entry of
\* the list and the total is the sum of the list's hours, also when another
\* client changes the account while the command runs.
C23_OneSnapshot ==
    (cmd = "status" /\ pc = "done" /\ result = "ok" /\ is_some(observed.total)) =>
        LET running(e) == e.is_running
            entries == unwrap(observed.entries)
        IN  /\ fetches <= 1
            /\ unwrap(observed.timer) = first_of(SelectSeq(entries, running))
            /\ unwrap(observed.total) = total_hours(entries)

\* ---- commits of several repositories (SpecRepos) ----
\* C24: when several repositories are scanned, the result is Ok and holds
\* exactly the commits of the repositories that could be read; when exactly
\* one repository is scanned and it cannot be read, the result is an error
\* and sync does not end with success.
C24_RepositoryFailures ==
    (is_some(call_result) /\ unwrap(call_args).fn = "get_commits_from_repositories") =>
        LET results == unwrap(call_args).results
            r == unwrap(call_result)
            read(c) == \E i \in DOMAIN results :
                          /\ results[i].status = "ok"
                          /\ \E k \in DOMAIN unwrap(results[i].value) :
                                unwrap(results[i].value)[k] = c
        IN  /\ Len(results) > 1 =>
                 /\ r.commits.status = "ok"
                 /\ \A c \in RepoCommits :
                        read(c) <=> \E k \in DOMAIN unwrap(r.commits.value) :
                                        unwrap(r.commits.value)[k] = c
            /\ (Len(results) = 1 /\ results[1].status = "err") =>
                 /\ r.commits.status = "err"
                 /\ r.sync # "ok"

\* ---- two invocations saving at the same time (SpecSavers) ----
\* C25: whatever the interleaving of the save steps of two invocations, no
\* reader loads the beginning of a document or a mix of two documents from
\* the real path, and once both saves have ended without an error of the
\* file system itself the real path holds the complete document of one of
\* the two invocations.
C25_OneWriteWins ==
    /\ reader_loaded \notin {Some(Partial), Some(Mixed)}
    /\ (\A w \in Savers : savers[w].pc = "done" /\ ~savers[w].io_error) =>
          \E w \in Savers : cache_file = savers[w].cache

\* ---- the date range of continue (SpecRange) ----
\* C26: for every lookback value N of the u8 range, 0 included, the range
\* is computed without overflow, starts N - 1 days before today and ends
\* today, and its start is not after its end.
C26_DateRange ==
    (is_some(call_result) /\ unwrap(call_args).fn = "continue_date_range") =>
        LET n == unwrap(call_args).lookback_days
            r == unwrap(call_result)
        IN  /\ r.status = "ok"
            /\ unwrap(r.value).from_date = n - 1
            /\ unwrap(r.value).to_date = 0
            /\ unwrap(r.value).from_date >= unwrap(r.value).to_date

\* ---- what generate submits (SpecGen) ----
\* C27: every create_stopped_time_entry call of generate carries a
\* description that is not empty after trimming and hours h with
\* 0 < h <= 24, also when the entry was edited in the review.
C27_SubmittedEntriesValid ==
    cmd = "generate" =>
        \A i \in DOMAIN calls :
            calls[i].op = "create" =>
                /\ is_some(calls[i].notes)
                /\ trim(unwrap(calls[i].notes)) # <<>>
                /\ is_some(calls[i].hours)
                /\ unwrap(calls[i].hours) > 0
                /\ unwrap(calls[i].hours) <= 24000

\* ---- the reply parser is total (SpecResponse) ----
\* C28: for every reply text, one that opens a code fence and never closes
\* it included, parse_response returns a list of entries or an error value;
\* it never aborts the program.
C28_ParseResponseTotal ==
    (is_some(call_result) /\ unwrap(call_args).fn = "parse_response") =>
        unwrap(call_result).status \in {"ok", "err"}

\* ---- a failed create after a stop (Spec) ----
\* the running command has sent a successful stop request and, right after
\* it, a create request that failed; k is the position of the stop
StopThenFailedCreate(k) ==
    /\ k \in DOMAIN reqs /\ k + 1 \in DOMAIN reqs
    /\ reqs[k].op = "stop" /\ reqs[k].status = "ok"
    /\ reqs[k + 1].op = "create" /\ reqs[k + 1].status # "ok"

C30_PromptsBeforeWrites ==
    cmd \in {"sync", "add", "continue", "generate"} =>
        /\ \A i \in DOMAIN prompts :
              /\ prompts[i].writes_before = 0
              /\ prompts[i].answer = "cancel" =>
                    /\ i = Len(prompts)
                    /\ pc = "done" /\ result = "cancelled"
                    /\ reqs = <<>>
                    /\ saves = 0 /\ file_writes = 0
        /\ (pc = "done" /\ result = "cancelled") => reqs = <<>>

\* a command that was cancelled at a prompt after an earlier command of the
\* session had written to the account
C30_Witness ==
    /\ cmd \in {"sync", "add", "continue", "generate"}
    /\ pc = "done" /\ result = "cancelled"
    /\ Len(prompts) >= 2
    /\ prompts[Len(prompts)].answer = "cancel"
    /\ cmds = 2 /\ Len(account) > 2

====
